---- MODULE Spec2Model ----
(***************************************************************************)
(* Model of the SafeLens segmentation / adaptive-sampling core.            *)
(*                                                                         *)
(* Times are integers (ticks); a factor of the configuration is held in    *)
(* percent (115 for 1.15), and the configurations drawn are those whose    *)
(* products are whole ticks, so no rounding is introduced.                 *)
(***************************************************************************)
EXTENDS Integers, Sequences, FiniteSets, TLC

VARIABLES
    norm,   \* one call of normalize_non_overlap: its arguments and its result
    mrg,    \* one call of merge_timestamps_with_planning: its arguments and its result
    kw,     \* one call of score_suspicion in keywords mode: its text and its result
    cache,              \* llm_planner._cache: key -> stored result
    cache_timestamps,   \* llm_planner._cache_timestamps: key -> time of the store
    now,                \* time.time()
    run,                \* analyze_segments: configuration, position, locals, results
    hist,               \* history of the run: what the last step did, calls made so far
    sc,     \* one segment scored by score_suspicion outside a run: arguments, result
    pp,     \* calls of propose_points on one cache key: arguments, results
    gpu,    \* gpu_guard.py: the guard, the permits, the position of each unit
    cc,     \* two runs inside _get_cached_result / _set_cached_result on one key
    task,   \* analyze_video_task: the video's and the run's status, its position
    split,  \* one call of split_long_segment: its arguments and its result
    proc,   \* process_segments: the segment list and the position in its loop
    smp     \* one call of sample_frames: its arguments, the frames extracted, its result

normVars == <<norm>>
mrgVars == <<mrg>>
kwVars == <<kw>>
runVars == <<cache, cache_timestamps, now, run, hist>>
extVars == <<sc, pp, gpu, cc, task, split, proc, smp>>
vars == <<normVars, mrgVars, kwVars, runVars, extVars>>

\* A part of the program that takes no step in the specification at hand.
Idle == [phase |-> "idle"]

\* Every part but `part` is idle.
IdleExcept(part) ==
    /\ IF part = "norm" THEN TRUE ELSE norm = Idle
    /\ IF part = "mrg" THEN TRUE ELSE mrg = Idle
    /\ IF part = "kw" THEN TRUE ELSE kw = Idle
    /\ IF part = "run" THEN TRUE
       ELSE cache = <<>> /\ cache_timestamps = <<>> /\ now = 0 /\ run = Idle /\ hist = Idle
    /\ IF part = "sc" THEN TRUE ELSE sc = Idle
    /\ IF part = "pp" THEN TRUE ELSE pp = Idle
    /\ IF part = "gpu" THEN TRUE ELSE gpu = Idle
    /\ IF part = "cc" THEN TRUE ELSE cc = Idle
    /\ IF part = "task" THEN TRUE ELSE task = Idle
    /\ IF part = "split" THEN TRUE ELSE split = Idle
    /\ IF part = "proc" THEN TRUE ELSE proc = Idle
    /\ IF part = "smp" THEN TRUE ELSE smp = Idle

\* What a step of `part` leaves alone: every other part.
Frame(part) ==
    /\ UNCHANGED <<normVars, mrgVars, kwVars, runVars>>
    /\ IF part = "sc" THEN TRUE ELSE UNCHANGED sc
    /\ IF part = "pp" THEN TRUE ELSE UNCHANGED pp
    /\ IF part = "gpu" THEN TRUE ELSE UNCHANGED gpu
    /\ IF part = "cc" THEN TRUE ELSE UNCHANGED cc
    /\ IF part = "task" THEN TRUE ELSE UNCHANGED task
    /\ IF part = "split" THEN TRUE ELSE UNCHANGED split
    /\ IF part = "proc" THEN TRUE ELSE UNCHANGED proc
    /\ IF part = "smp" THEN TRUE ELSE UNCHANGED smp

Min(S) == CHOOSE x \in S : \A y \in S : x <= y
Max2(a, b) == IF a >= b THEN a ELSE b

(***************************************************************************)
(* segmentation.py: normalize_non_overlap                                  *)
(***************************************************************************)

\* Bounds of the inputs drawn for normalize_non_overlap.
MaxSegs == 3
MaxGap == 2
MaxDur == 5
MaxBoundShift == 1

Seg(s, e) == [start |-> s, end |-> e]

\* sort key (s['start'], s['end'])
SegKeyLE(a, b) == a.start < b.start \/ (a.start = b.start /\ a.end <= b.end)

RECURSIVE InsertSeg(_, _)
InsertSeg(sorted, x) ==
    IF sorted = <<>> THEN <<x>>
    ELSE IF SegKeyLE(Head(sorted), x) THEN <<Head(sorted)>> \o InsertSeg(Tail(sorted), x)
    ELSE <<x>> \o sorted

RECURSIVE SortSegs(_)
SortSegs(segments) ==
    IF segments = <<>> THEN <<>>
    ELSE InsertSeg(SortSegs(SubSeq(segments, 1, Len(segments) - 1)), segments[Len(segments)])

\* soft_max = cfg.max_len_sec * cfg.max_len_soft_factor
SoftMax(cfg) == (cfg.max_len_sec * cfg.max_len_soft_factor) \div 100

\* snap_up_to_transcript: smallest boundary >= t within tolerance, else t
SnapUpToTranscript(t, transcript_bounds, cfg) ==
    IF ~cfg.trim_to_transcript_boundaries \/ transcript_bounds = {} THEN t
    ELSE LET candidates == {b \in transcript_bounds :
                               b >= t /\ (b - t) <= cfg.non_overlap_tolerance_sec}
         IN  IF candidates # {} THEN Min(candidates) ELSE t

\* the trim without the test of line 758
NeverTiny(e, new_start, cfg) == FALSE

\* (e - new_start) < (cfg.min_len_sec * drop_tiny_factor)
TinyAfterTrim(e, new_start, cfg) ==
    (e - new_start) * 100 < cfg.min_len_sec * cfg.drop_tiny_after_trim_factor

SetLastEnd(final, e) == [final EXCEPT ![Len(final)].end = e]

\* One iteration of the first loop; acc = [final, last_end].
NormalizeStep(acc, seg, transcript_bounds, cfg) ==
    LET s == seg.start
        e == seg.end
        tol == cfg.non_overlap_tolerance_sec
        final == acc.final
        last_end == acc.last_end
        Append1(s1) ==
            LET e1 == IF (e - s1) > SoftMax(cfg) THEN s1 + SoftMax(cfg) ELSE e
            IN  [final |-> Append(final, Seg(s1, e1)), last_end |-> <<e1>>]
    IN  IF last_end = <<>>
        THEN [final |-> Append(final, Seg(s, e)), last_end |-> <<e>>]
        ELSE IF s < (last_end[1] - tol)
        THEN LET prev == final[Len(final)]
                 merged_end == Max2(prev.end, e)
                 merged_len == merged_end - prev.start
             IN  IF merged_len <= SoftMax(cfg)
                 THEN [final |-> SetLastEnd(final, merged_end), last_end |-> <<merged_end>>]
                 ELSE LET new_start == SnapUpToTranscript(Max2(last_end[1], s),
                                                          transcript_bounds, cfg)
                      IN  IF TinyAfterTrim(e, new_start, cfg)
                          THEN acc
                          ELSE Append1(new_start)
        ELSE Append1(s)

RECURSIVE NormalizeLoop(_, _, _, _)
NormalizeLoop(acc, segs, transcript_bounds, cfg) ==
    IF segs = <<>> THEN acc
    ELSE NormalizeLoop(NormalizeStep(acc, Head(segs), transcript_bounds, cfg),
                       Tail(segs), transcript_bounds, cfg)

\* the final sweep keeping a segment that ends exactly where it starts
SweepKeepsZeroLength(s, e) == e >= s

\* final sweep: "if e <= s: continue"
SweepKeeps(s, e) == e > s

\* One iteration of the final sweep; acc = [out, last_end].
SweepStep(acc, seg, cfg) ==
    LET s == IF acc.last_end # <<>>
                /\ seg.start < (acc.last_end[1] - cfg.non_overlap_tolerance_sec)
             THEN acc.last_end[1] ELSE seg.start
        e == seg.end
    IN  IF SweepKeeps(s, e)
        THEN [out |-> Append(acc.out, Seg(s, e)), last_end |-> <<e>>]
        ELSE acc

RECURSIVE SweepLoop(_, _, _)
SweepLoop(acc, final, cfg) ==
    IF final = <<>> THEN acc
    ELSE SweepLoop(SweepStep(acc, Head(final), cfg), Tail(final), cfg)

NormalizeNonOverlap(segments, transcript_bounds, cfg) ==
    IF segments = <<>> THEN <<>>
    ELSE LET segs == SortSegs(segments)
             final == NormalizeLoop([final |-> <<>>, last_end |-> <<>>],
                                    segs, transcript_bounds, cfg).final
         IN  SweepLoop([out |-> <<>>, last_end |-> <<>>], final, cfg).out

\* SegmentationConfig fields read by normalize_non_overlap, as accepted by validate()
\* (min_len_sec > 0, max_len_sec > min_len_sec; the other fields are not validated).
NormConfigs ==
    {c \in [min_len_sec : {1, 2},
            max_len_sec : {3},
            max_len_soft_factor : {100, 200},
            non_overlap_tolerance_sec : {0, 2},
            drop_tiny_after_trim_factor : {50, 100},
            trim_to_transcript_boundaries : BOOLEAN] :
        c.min_len_sec > 0 /\ c.max_len_sec > c.min_len_sec}

\* The list whose i-th segment starts gaps[i] after the start of the one before it
\* (the first at gaps[1]) and lasts durs[i].
RECURSIVE BuildSegs(_, _, _, _)
BuildSegs(gaps, durs, i, from) ==
    IF i > Len(gaps) THEN <<>>
    ELSE <<Seg(from + gaps[i], from + gaps[i] + durs[i])>>
         \o BuildSegs(gaps, durs, i + 1, from + gaps[i])

\* Input lists: starts non-decreasing, as process_segments passes them
\* (final_segments.sort(key=start)); the first start is the origin of time;
\* durations may be zero or negative.
SegListsOfLen(n) ==
    {BuildSegs(gaps, durs, 1, 0) :
        gaps \in {g \in [1..n -> 0..MaxGap] : n = 0 \/ g[1] = 0},
        durs \in [1..n -> -1..MaxDur]}

\* transcript_bounds: the starts and ends of the transcript segments
\* (process_segments lines 692-695)
BoundsOf(segments) ==
    {segments[i].start : i \in 1..Len(segments)} \cup {segments[i].end : i \in 1..Len(segments)}

\* the transcript segments lie where the segments lie, or later by shift (a
\* segment cut at a visual boundary ends before the transcript segment does)
ShiftedBounds(segments, shift) == {b + shift : b \in BoundsOf(segments)}

NormInit ==
    /\ IdleExcept("norm")
    /\ \E n \in 0..MaxSegs : \E segments \in SegListsOfLen(n), shift \in 0..MaxBoundShift :
        norm = [phase |-> "call", segments |-> segments, cfg |-> <<>>,
                transcript_bounds |-> ShiftedBounds(segments, shift), out |-> <<>>]

Normalize ==
    /\ norm.phase = "call"
    /\ \E cfg \in NormConfigs :
        norm' = [norm EXCEPT !.phase = "done", !.cfg = cfg,
                   !.out = NormalizeNonOverlap(norm.segments, norm.transcript_bounds, cfg)]
    /\ UNCHANGED <<mrgVars, kwVars, runVars, extVars>>

NormNext == Normalize

SpecNorm == NormInit /\ [][NormNext]_vars

(***************************************************************************)
(* llm_planner.py: merge_timestamps_with_planning, and the periodic        *)
(* timestamps analyze_segments passes to it                                *)
(***************************************************************************)

\* Bounds of the inputs drawn for merge_timestamps_with_planning.
MaxSegEnd == 6
MaxFrames == 3
MaxBudget == 2
\* propose_points returns at most 3 points (max_points_for_segment = min(3, ...))
MaxPointsPerSegment == 3

RECURSIVE SortedSeq(_)
SortedSeq(S) ==
    IF S = {} THEN <<>> ELSE LET m == Min(S) IN <<m>> \o SortedSeq(S \ {m})

SeqToSet(q) == {q[i] : i \in 1..Len(q)}

\* analyze_segments: "while current < end and len(periodic_timestamps) < cap"
RECURSIVE PeriodicFrom(_, _, _, _, _)
PeriodicFrom(current, end, interval, cap, acc) ==
    IF current < end /\ Len(acc) < cap
    THEN PeriodicFrom(current + interval, end, interval, cap, Append(acc, current))
    ELSE acc

PeriodicTimestamps(start, end, interval, cap) == PeriodicFrom(start, end, interval, cap, <<>>)

\* "if not filtered or (ts - filtered[-1]) >= cfg.planner_min_gap_sec"
RECURSIVE MinGapFilter(_, _, _)
MinGapFilter(sorted_timestamps, gap, filtered) ==
    IF sorted_timestamps = <<>> THEN filtered
    ELSE LET ts == Head(sorted_timestamps)
             keep == filtered = <<>> \/ (ts - filtered[Len(filtered)]) >= gap
         IN  MinGapFilter(Tail(sorted_timestamps), gap,
                          IF keep THEN Append(filtered, ts) ELSE filtered)

\* max_extra = min(max_extra_by_segment, max_extra_by_points, max_extra_by_frames);
\* a max_frames_per_segment that is falsy (0) gives float('inf') for the first.
MaxExtra(periodic_timestamps, cfg, max_frames_per_segment, remaining_points_budget) ==
    Min((IF max_frames_per_segment # 0
         THEN {max_frames_per_segment - Len(periodic_timestamps)} ELSE {})
        \cup {remaining_points_budget, cfg.planner_max_extra_frames})

\* the loop over filtered_timestamps; extras are kept while extra_added < max_extra
RECURSIVE KeepWithinBudget(_, _, _, _, _, _)
KeepWithinBudget(filtered, planned_set, periodic_set, max_extra, extra_added, final) ==
    IF filtered = <<>> THEN final
    ELSE LET ts == Head(filtered)
             is_extra == ts \in planned_set /\ ts \notin periodic_set
         IN  IF is_extra
             THEN IF extra_added < max_extra
                  THEN KeepWithinBudget(Tail(filtered), planned_set, periodic_set,
                                        max_extra, extra_added + 1, Append(final, ts))
                  ELSE KeepWithinBudget(Tail(filtered), planned_set, periodic_set,
                                        max_extra, extra_added, final)
             ELSE KeepWithinBudget(Tail(filtered), planned_set, periodic_set,
                                   max_extra, extra_added, Append(final, ts))

MergeTimestampsWithPlanning(periodic_timestamps, planned_timestamps, cfg, max_frames_per_segment, remaining_points_budget) ==
    LET sorted_timestamps ==
            SortedSeq(SeqToSet(periodic_timestamps) \cup SeqToSet(planned_timestamps))
        filtered_timestamps == MinGapFilter(sorted_timestamps, cfg.planner_min_gap_sec, <<>>)
        max_extra == MaxExtra(periodic_timestamps, cfg, max_frames_per_segment,
                              remaining_points_budget)
        final_timestamps ==
            KeepWithinBudget(filtered_timestamps, SeqToSet(planned_timestamps),
                             SeqToSet(periodic_timestamps), max_extra, 0, <<>>)
    IN  SortedSeq(SeqToSet(final_timestamps))

\* The LLMPlannerConfig fields merge_timestamps_with_planning reads, as validate()
\* accepts them (both non-negative; the defaults are 8.0 and 120).
MergeConfigs == [planner_min_gap_sec : {0, 1, 3}, planner_max_extra_frames : {1, 120}]

\* seg_safe_sample_sec / seg_suspicious_sample_sec
SampleIntervals == {1, 2}

\* What a fresh propose_points answer looks like: sorted points within the segment,
\* consecutive points at least planner_min_gap_sec apart, at most 3 of them.
IsPlannedList(q, start, end, gap) ==
    /\ \A i \in 1..Len(q) : start <= q[i] /\ q[i] <= end
    /\ \A i \in 1..(Len(q) - 1) : q[i] < q[i + 1] /\ q[i + 1] - q[i] >= gap

PlannedLists(start, end, gap) ==
    {SortedSeq(S) : S \in {T \in SUBSET (start..end) :
                              /\ T # {}
                              /\ Cardinality(T) <= MaxPointsPerSegment
                              /\ IsPlannedList(SortedSeq(T), start, end, gap)}}

MergeInit ==
    /\ IdleExcept("mrg")
    /\ \E end \in 1..MaxSegEnd, interval \in SampleIntervals, cfg \in MergeConfigs,
       max_frames \in 0..MaxFrames, budget \in 0..MaxBudget :
        \E planned \in PlannedLists(0, end, cfg.planner_min_gap_sec) :
            mrg = [phase |-> "call", start |-> 0, end |-> end, interval |-> interval, cfg |-> cfg,
                   max_frames_per_segment |-> max_frames,
                   remaining_points_budget |-> budget,
                   periodic |-> PeriodicTimestamps(0, end, interval, max_frames),
                   planned |-> planned, out |-> <<>>]

Merge ==
    /\ mrg.phase = "call"
    /\ mrg' = [mrg EXCEPT !.phase = "done",
                  !.out = MergeTimestampsWithPlanning(mrg.periodic, mrg.planned, mrg.cfg,
                              mrg.max_frames_per_segment, mrg.remaining_points_budget)]
    /\ UNCHANGED <<normVars, kwVars, runVars, extVars>>

MergeNext == Merge

SpecMerge == MergeInit /\ [][MergeNext]_vars

(***************************************************************************)
(* segment_analyzer.py: score_suspicion, mode "keywords"                   *)
(*                                                                         *)
(* A text is a sequence of characters. Confidences are in percent.         *)
(***************************************************************************)

\* The category -> keywords table, in the order the dict is written (and iterated).
SUSPICION_KEYWORDS == <<
    [category |-> "hate", keywords |-> <<
        <<"n", "a", "z", "i">>,
        <<"h", "i", "t", "l", "e", "r">>,
        <<"s", "w", "a", "s", "t", "i", "k", "a">>,
        <<"k", "k", "k">>,
        <<"w", "h", "i", "t", "e", " ", "p", "o", "w", "e", "r">>,
        <<"n", "-", "w", "o", "r", "d">>,
        <<"j", "e", "w">>,
        <<"k", "i", "k", "e">>,
        <<"s", "p", "i", "c">>,
        <<"c", "h", "i", "n", "k">>,
        <<"t", "o", "w", "e", "l", "h", "e", "a", "d">>,
        <<"r", "a", "g", "h", "e", "a", "d">>,
        <<"f", "a", "g", "g", "o", "t">>,
        <<"t", "r", "a", "n", "n", "y">>,
        <<"r", "e", "t", "a", "r", "d">>
    >>],
    [category |-> "self_harm", keywords |-> <<
        <<"s", "u", "i", "c", "i", "d", "e">>,
        <<"k", "i", "l", "l", " ", "m", "y", "s", "e", "l", "f">>,
        <<"e", "n", "d", " ", "i", "t", " ", "a", "l", "l">>,
        <<"r", "a", "z", "o", "r">>,
        <<"c", "u", "t", "t", "i", "n", "g">>,
        <<"s", "e", "l", "f", "-", "h", "a", "r", "m">>,
        <<"o", "v", "e", "r", "d", "o", "s", "e">>,
        <<"p", "i", "l", "l", "s">>,
        <<"j", "u", "m", "p", " ", "o", "f", "f">>,
        <<"h", "a", "n", "g", " ", "m", "y", "s", "e", "l", "f">>
    >>],
    [category |-> "nudity", keywords |-> <<
        <<"n", "a", "k", "e", "d">>,
        <<"n", "u", "d", "e">>,
        <<"p", "e", "n", "i", "s">>,
        <<"v", "a", "g", "i", "n", "a">>,
        <<"b", "o", "o", "b", "s">>,
        <<"t", "i", "t", "s">>,
        <<"a", "s", "s">>,
        <<"p", "o", "r", "n">>,
        <<"s", "e", "x", " ", "t", "a", "p", "e">>,
        <<"m", "a", "s", "t", "u", "r", "b", "a", "t">>,
        <<"o", "r", "g", "a", "s", "m">>,
        <<"h", "o", "r", "n", "y">>
    >>],
    [category |-> "drugs", keywords |-> <<
        <<"c", "o", "c", "a", "i", "n", "e">>,
        <<"h", "e", "r", "o", "i", "n">>,
        <<"m", "e", "t", "h">>,
        <<"c", "r", "a", "c", "k">>,
        <<"w", "e", "e", "d">>,
        <<"m", "a", "r", "i", "j", "u", "a", "n", "a">>,
        <<"m", "o", "l", "l", "y">>,
        <<"e", "c", "s", "t", "a", "s", "y">>,
        <<"l", "s", "d">>,
        <<"a", "c", "i", "d">>,
        <<"s", "h", "r", "o", "o", "m", "s">>,
        <<"x", "a", "n", "a", "x">>,
        <<"o", "x", "y">>,
        <<"f", "e", "n", "t", "a", "n", "y", "l">>
    >>],
    [category |-> "violence", keywords |-> <<
        <<"k", "i", "l", "l">>,
        <<"m", "u", "r", "d", "e", "r">>,
        <<"s", "h", "o", "o", "t">>,
        <<"s", "t", "a", "b">>,
        <<"b", "e", "a", "t", " ", "u", "p">>,
        <<"f", "i", "g", "h", "t">>,
        <<"b", "l", "o", "o", "d">>,
        <<"w", "e", "a", "p", "o", "n">>,
        <<"g", "u", "n">>,
        <<"k", "n", "i", "f", "e">>,
        <<"b", "o", "m", "b">>,
        <<"e", "x", "p", "l", "o", "s", "i", "v", "e">>,
        <<"t", "o", "r", "t", "u", "r", "e">>
    >>],
    [category |-> "abuse", keywords |-> <<
        <<"m", "o", "l", "e", "s", "t">>,
        <<"r", "a", "p", "e">>,
        <<"a", "s", "s", "a", "u", "l", "t">>,
        <<"a", "b", "u", "s", "e">>,
        <<"v", "i", "c", "t", "i", "m">>,
        <<"p", "r", "e", "d", "a", "t", "o", "r">>,
        <<"k", "i", "d", "n", "a", "p">>,
        <<"t", "r", "a", "f", "f", "i", "c", "k">>,
        <<"e", "x", "p", "l", "o", "i", "t">>,
        <<"c", "o", "e", "r", "c", "e">>
    >>]
>>

UpperCase == <<"A", "B", "C", "D", "E", "F", "G", "H", "I", "J", "K", "L", "M",
               "N", "O", "P", "Q", "R", "S", "T", "U", "V", "W", "X", "Y", "Z">>
LowerCase == <<"a", "b", "c", "d", "e", "f", "g", "h", "i", "j", "k", "l", "m",
               "n", "o", "p", "q", "r", "s", "t", "u", "v", "w", "x", "y", "z">>

\* str.lower(), character by character
LowerChar(c) ==
    IF \E i \in 1..Len(UpperCase) : UpperCase[i] = c
    THEN LowerCase[CHOOSE i \in 1..Len(UpperCase) : UpperCase[i] = c]
    ELSE c

Lower(text) == [i \in 1..Len(text) |-> LowerChar(text[i])]

\* "keyword in text_lower"
Contains(text, keyword) ==
    \E i \in 1..(Len(text) - Len(keyword) + 1) :
        SubSeq(text, i, i + Len(keyword) - 1) = keyword

RECURSIVE Flatten(_, _, _)
Flatten(table, ci, ki) ==
    IF ci > Len(table) THEN <<>>
    ELSE IF ki > Len(table[ci].keywords) THEN Flatten(table, ci + 1, 1)
    ELSE <<[category |-> table[ci].category, keyword |-> table[ci].keywords[ki]]>>
         \o Flatten(table, ci, ki + 1)

RECURSIVE Reverse(_)
Reverse(q) == IF q = <<>> THEN <<>> ELSE Append(Reverse(Tail(q)), Head(q))

\* the nested loops visiting the table last entry first
KeywordsLastFirst == Reverse(Flatten(SUSPICION_KEYWORDS, 1, 1))

\* "for category, keywords in SUSPICION_KEYWORDS.items(): for keyword in keywords"
KeywordsInOrder == Flatten(SUSPICION_KEYWORDS, 1, 1)

\* keywords mode without the "if not segment_text" branch
ScoreKeywordsNoEmptyCase(segment_text) ==
    LET text_lower == Lower(segment_text)
        hits == {i \in 1..Len(KeywordsInOrder) : Contains(text_lower, KeywordsInOrder[i].keyword)}
    IN  IF hits # {}
        THEN [suspicious |-> TRUE, confidence |-> 80, method |-> "keywords",
              category |-> KeywordsInOrder[Min(hits)].category,
              keyword |-> KeywordsInOrder[Min(hits)].keyword,
              reason |-> "Keyword found"]
        ELSE [suspicious |-> FALSE, confidence |-> 90, method |-> "keywords",
              reason |-> "No suspicious keywords found"]

\* score_suspicion(segment_text, "keywords"): the first keyword, in iteration order,
\* that is a substring of the lower-cased text decides
ScoreKeywords(segment_text) ==
    IF segment_text = <<>>
    THEN [suspicious |-> FALSE, confidence |-> 0, method |-> "keywords",
          reason |-> "No text available"]
    ELSE LET text_lower == Lower(segment_text)
             hits == {i \in 1..Len(KeywordsInOrder) :
                         Contains(text_lower, KeywordsInOrder[i].keyword)}
         IN  IF hits # {}
             THEN [suspicious |-> TRUE, confidence |-> 80, method |-> "keywords",
                   category |-> KeywordsInOrder[Min(hits)].category,
                   keyword |-> KeywordsInOrder[Min(hits)].keyword,
                   reason |-> "Keyword found"]
             ELSE [suspicious |-> FALSE, confidence |-> 90, method |-> "keywords",
                   reason |-> "No suspicious keywords found"]

\* Bound of the texts drawn: a text is up to MaxFrags fragments, concatenated.
MaxFrags == 3

Fragments == {
    <<"h", "e", "r", "o", "i", "n">>,
    <<"H", "e", "r", "o">>,
    <<"i", "n">>,
    <<" ">>,
    <<"o", "v", "e", "r", "d", "o", "s", "e">>,
    <<"g", "u", "n">>,
    <<"p", "a", "s", "s">>,
    <<"h", "e", "l", "l", "o">>,
    <<"N", "a", "z", "i">>
}

RECURSIVE Concat(_)
Concat(parts) == IF parts = <<>> THEN <<>> ELSE Head(parts) \o Concat(Tail(parts))

Texts == UNION {{Concat(parts) : parts \in [1..n -> Fragments]} : n \in 0..MaxFrags}

KwInit ==
    /\ IdleExcept("kw")
    /\ \E text \in Texts : kw = [phase |-> "call", text |-> text, result |-> <<>>]

ScoreSuspicionKeywords ==
    /\ kw.phase = "call"
    /\ kw' = [kw EXCEPT !.phase = "done", !.result = ScoreKeywords(kw.text)]
    /\ UNCHANGED <<normVars, mrgVars, runVars, extVars>>

KwNext == ScoreSuspicionKeywords

SpecKw == KwInit /\ [][KwNext]_vars

(***************************************************************************)
(* The result cache of llm_planner.py and the scoring of one segment.      *)
(* A Python dict is a function whose domain is the set of its keys; a      *)
(* confidence is held in percent (80 for 0.8); a None among strings (a    *)
(* category) is the string "None".                                         *)
(***************************************************************************)
Min2(a, b) == IF a <= b THEN a ELSE b

\* Python's None where a dict is expected
None == [none |-> TRUE]

\* d.get(k, default)
DictGet(d, k, default) == IF k \in DOMAIN d THEN d[k] ELSE default

\* d[k] = v
DictSet(d, k, v) == [x \in (DOMAIN d) \cup {k} |-> IF x = k THEN v ELSE d[x]]

\* del d[k], d.pop(k, None)
DictDel(d, k) == [x \in (DOMAIN d) \ {k} |-> d[x]]

\* hashlib.sha1(text.encode('utf-8')).hexdigest()[:10]: the texts of the model
\* have pairwise different digests
TextHash(text) == <<"sha1", text>>

cache_key(video_id, seg_index, text_hash, kind) == <<video_id, seg_index, text_hash, kind>>

\* _get_cached_result: a stored entry past its TTL is removed and not returned.
\* store is the pair of module-level dicts; the result carries the dicts as left.
GetCachedResult(store, key, ttl_sec, time) ==
    IF key \notin DOMAIN store.cache
    THEN [found |-> FALSE, value |-> "None", store |-> store]
    ELSE IF key \notin DOMAIN store.timestamps
    THEN [found |-> FALSE, value |-> "None",
          store |-> [store EXCEPT !.cache = DictDel(@, key)]]
    ELSE IF time - store.timestamps[key] > ttl_sec
    THEN [found |-> FALSE, value |-> "None",
          store |-> [cache |-> DictDel(store.cache, key),
                     timestamps |-> DictDel(store.timestamps, key)]]
    ELSE [found |-> TRUE, value |-> store.cache[key], store |-> store]

\* _set_cached_result
SetCachedResult(store, key, result, time) ==
    [cache |-> DictSet(store.cache, key, result),
     timestamps |-> DictSet(store.timestamps, key, time)]

RECURSIVE LStrip(_)
LStrip(text) == IF text # <<>> /\ Head(text) = " " THEN LStrip(Tail(text)) ELSE text

\* str.strip()
Strip(text) == Reverse(LStrip(Reverse(LStrip(text))))

\* "not text or len(text.strip()) < cfg.suspicion_llm_min_text_chars"
TextTooShort(text, cfg) ==
    text = <<>> \/ Len(Strip(text)) < cfg.suspicion_llm_min_text_chars

\* max(0.0, min(1.0, confidence))
ClampConfidence(confidence) == Max2(0, Min2(100, confidence))

\* the dict returned when the provider's answer cannot be used
SuspicionFallback(reason) ==
    [suspicious |-> FALSE, confidence |-> 0, category |-> "None", reason |-> reason,
     _error |-> TRUE]

\* the llm argument: "given" a SafetyLLM is passed; "created" none is passed and
\* SafetyLLM(model=...) is made; "unavailable" none is passed, the backend is
\* openrouter and OPENROUTER_API_KEY is not set (lines 205-227, 351-366)
LLMArguments == {"given", "created", "unavailable"}

\* lines 217-223
OpenRouterMissing ==
    [suspicious |-> FALSE, confidence |-> 0, category |-> "None",
     reason |-> "OpenRouter key missing; using keyword fallback",
     _fallback |-> "openrouter_missing"]

\* suspicion_score(text, cfg, video_id, seg_index, llm); reply is what
\* provided_llm.invoke does: "ok" a dict without "error", "error" a dict with
\* "error", "nondict" any other value, "raise" an exception inside the try
\* (invoke itself, or float() of a confidence that is no number).
SuspicionScore(text, cfg, video_id, seg_index, llm, reply, store, time) ==
    IF TextTooShort(text, cfg)
    THEN [result |-> [suspicious |-> FALSE, confidence |-> 0, category |-> "None",
                      reason |-> "Text too short for analysis"],
          store |-> store, provider_called |-> FALSE]
    ELSE LET key == cache_key(video_id, seg_index, TextHash(text), "suspicion")
             got == GetCachedResult(store, key, cfg.suspicion_llm_cache_ttl_sec, time)
         IN  IF got.found
             THEN [result |-> DictSet(got.value, "_cache_hit", TRUE),
                   store |-> got.store, provider_called |-> FALSE]
             ELSE IF llm = "unavailable"
             THEN [result |-> OpenRouterMissing,
                   store |-> got.store, provider_called |-> FALSE]
             ELSE IF reply.kind = "ok"
             THEN LET final_result ==
                          [suspicious |-> reply.suspicious,
                           confidence |-> ClampConfidence(reply.confidence),
                           category |-> reply.category, reason |-> reply.reason,
                           _latency_ms |-> 0, _cache_hit |-> FALSE]
                      cache_result == DictDel(final_result, "_cache_hit")
                  IN  [result |-> final_result,
                       store |-> SetCachedResult(got.store, key, cache_result, time),
                       provider_called |-> TRUE]
             ELSE IF reply.kind \in {"error", "nondict"}
             THEN [result |-> SuspicionFallback("LLM error"),
                   store |-> got.store, provider_called |-> TRUE]
             ELSE [result |-> SuspicionFallback("Analysis failed"),
                   store |-> got.store, provider_called |-> TRUE]

\* texts of a segment: one too short for the LLM once stripped, but with a
\* keyword; one long enough without keyword; one long enough with a keyword
RunTexts == {
    <<" ", "g", "u", "n", " ">>,
    <<"h", "e", "l", "l", "o">>,
    <<"h", "e", "r", "o", "i", "n">>
}

\* score_suspicion in keywords mode, worked out once for the texts of the runs
KeywordScores == [text \in RunTexts |-> ScoreKeywords(text)]

KeywordScore(segment_text) ==
    IF segment_text \in RunTexts THEN KeywordScores[segment_text]
    ELSE ScoreKeywords(segment_text)

\* "if llm_result['confidence'] >= threshold: llm_result['suspicious'] = True"
ApplyThreshold(llm_result, threshold) ==
    IF llm_result.confidence >= threshold
    THEN DictSet(llm_result, "suspicious", TRUE)
    ELSE llm_result

\* score_suspicion(segment_text, mode, planner_cfg, video_id, seg_index, llm) as
\* analyze_segments calls it; llm is one of LLMArguments.  llm_result is what
\* llm_suspicion_score returned, "None" when it was not called.
ScoreSuspicion(segment_text, mode, planner_cfg, video_id, seg_index, llm, reply, store, time) ==
    IF mode = "off"
    THEN [result |-> [suspicious |-> FALSE, confidence |-> 0, method |-> "off",
                      reason |-> "Suspicion scoring disabled"],
          llm_result |-> None, store |-> store, provider_called |-> FALSE]
    ELSE IF mode = "llm"
    THEN LET r == SuspicionScore(segment_text, planner_cfg, video_id, seg_index,
                                 llm, reply, store, time)
             llm_result == DictSet(r.result, "method", "llm")
         IN  IF DictGet(llm_result, "_error", FALSE)
             THEN [result |-> KeywordScore(segment_text), llm_result |-> r.result,
                   store |-> r.store, provider_called |-> r.provider_called]
             ELSE [result |-> ApplyThreshold(llm_result,
                                  planner_cfg.suspicion_llm_conf_threshold),
                   llm_result |-> r.result,
                   store |-> r.store, provider_called |-> r.provider_called]
    ELSE [result |-> KeywordScore(segment_text),
          llm_result |-> None, store |-> store, provider_called |-> FALSE]

(***************************************************************************)
(* propose_points, sample_frames and llm_decide.                           *)
(***************************************************************************)
RECURSIVE InsertNum(_, _)
InsertNum(sorted, x) ==
    IF sorted = <<>> THEN <<x>>
    ELSE IF x < Head(sorted) THEN <<x>> \o sorted
    ELSE <<Head(sorted)>> \o InsertNum(Tail(sorted), x)

\* list.sort() of numbers
RECURSIVE SortNums(_)
SortNums(q) == IF q = <<>> THEN <<>> ELSE InsertNum(SortNums(Tail(q)), Head(q))

\* q[:n] for n >= 0
Prefix(q, n) == SubSeq(q, 1, Min2(Len(q), n))

\* "if 0 <= relative_point <= segment_duration: absolute_points.append(seg_start + relative_point)"
RECURSIVE AbsolutePoints(_, _, _)
AbsolutePoints(raw_points, seg_start, segment_duration) ==
    IF raw_points = <<>> THEN <<>>
    ELSE LET rest == AbsolutePoints(Tail(raw_points), seg_start, segment_duration)
         IN  IF 0 <= Head(raw_points) /\ Head(raw_points) <= segment_duration
             THEN <<seg_start + Head(raw_points)>> \o rest
             ELSE rest

\* "if not filtered_points or (point - filtered_points[-1]) >= cfg.planner_min_gap_sec"
RECURSIVE PointsGapFilter(_, _, _)
PointsGapFilter(absolute_points, gap, filtered_points) ==
    IF absolute_points = <<>> THEN filtered_points
    ELSE LET point == Head(absolute_points)
         IN  IF filtered_points = <<>>
                \/ point - filtered_points[Len(filtered_points)] >= gap
             THEN PointsGapFilter(Tail(absolute_points), gap, Append(filtered_points, point))
             ELSE PointsGapFilter(Tail(absolute_points), gap, filtered_points)

\* min(3, max(1, int(segment_duration / cfg.planner_min_gap_sec)))
MaxPointsForSegment(segment_duration, gap) ==
    Min2(MaxPointsPerSegment, Max2(1, segment_duration \div gap))

\* propose_points(segment_text, seg_start, seg_end, cfg, video_id, seg_index, llm);
\* llm is one of LLMArguments.  raised: the call ends in an exception (the division by a zero
\* planner_min_gap_sec stands before the try).  invoked: the provider was called.
ProposePoints(segment_text, seg_start, seg_end, cfg, video_id, seg_index, llm, reply, store, time) ==
    LET segment_duration == seg_end - seg_start
        key == cache_key(video_id, seg_index, TextHash(segment_text), "points")
        got == GetCachedResult(store, key, cfg.suspicion_llm_cache_ttl_sec, time)
        none == [points |-> <<>>, store |-> store, raised |-> FALSE, provider_called |-> FALSE]
    IN  IF TextTooShort(segment_text, cfg) THEN none
        ELSE IF segment_duration < cfg.planner_min_gap_sec THEN none
        ELSE IF got.found
        THEN [none EXCEPT !.points = DictGet(got.value, "points", <<>>),
                          !.store = [got.store EXCEPT !.cache[key] =
                                        DictSet(got.value, "_cache_hit", TRUE)]]
        ELSE IF cfg.planner_min_gap_sec = 0
        THEN [none EXCEPT !.store = got.store, !.raised = TRUE]
        ELSE IF llm = "unavailable"
        THEN [none EXCEPT !.store = got.store]
        ELSE IF reply.kind = "ok"
        THEN LET absolute_points ==
                     SortNums(AbsolutePoints(DictGet(reply, "points", <<>>), seg_start,
                                             segment_duration))
                 filtered_points ==
                     Prefix(PointsGapFilter(absolute_points, cfg.planner_min_gap_sec, <<>>),
                            MaxPointsForSegment(segment_duration, cfg.planner_min_gap_sec))
                 cache_result == [points |-> filtered_points, reason |-> reply.reason,
                                  _latency_ms |-> 0, _cache_hit |-> FALSE]
             IN  [points |-> filtered_points,
                  store |-> SetCachedResult(got.store, key, cache_result, time),
                  raised |-> FALSE, provider_called |-> TRUE]
        ELSE [none EXCEPT !.store = got.store, !.provider_called = TRUE]

\* "[ts for ts in timestamps if start <= ts <= end]"
RECURSIVE WithinSegment(_, _, _)
WithinSegment(timestamps, start, end) ==
    IF timestamps = <<>> THEN <<>>
    ELSE LET rest == WithinSegment(Tail(timestamps), start, end)
         IN  IF start <= Head(timestamps) /\ Head(timestamps) <= end
             THEN <<Head(timestamps)>> \o rest
             ELSE rest

\* sample_frames(video_path, start, end, interval, cap, timestamps): extract_frames
\* returns `extracted` paths, at most one per timestamp asked for (none when it
\* raises); the i-th path is paired with the i-th timestamp
SampleFrames(start, end, cap, timestamps, extracted) ==
    LET segment_timestamps == Prefix(WithinSegment(timestamps, start, end), cap)
    IN  Prefix(segment_timestamps, extracted)

\* the fallback of llm_decide
DecisionFallback ==
    [is_harmful |-> FALSE, confidence |-> 0, categories |-> <<>>,
     explanation |-> "Analysis failed - assuming safe"]

\* llm_decide: the confidence of a decision is held in thousandths (295 for 0.295);
\* reply is what llm.invoke does, as for suspicion_score
LLMDecide(reply) ==
    IF reply.kind = "ok"
    THEN [is_harmful |-> reply.pred_is_harmful,
          confidence |-> Max2(0, Min2(1000, reply.confidence)),
          categories |-> <<>>, explanation |-> "",
          _token_usage |-> reply.token_usage]
    ELSE DecisionFallback

\* format_timestamp: hours, minutes, seconds of HH:MM:SS.mmm
format_timestamp(seconds) ==
    <<seconds \div 3600, (seconds % 3600) \div 60, seconds % 60>>

\* int(decision['confidence'] * 100)
ScaleConfidence(confidence) == (confidence * 100) \div 1000

(***************************************************************************)
(* analyze_segments: runs over the segments of one video.  A run reads its *)
(* configuration afresh (from_env), so the counters and cfg.suspicion_mode *)
(* start anew with each run while the cache lives on.                      *)
(***************************************************************************)
\* Bounds of the runs drawn.
MaxRunSegs == 2
MaxRuns == 2
MaxTime == 2
SegLen == 4

VideoId == "v1"

\* values of SegmentationConfig and LLMPlannerConfig that pass validate()
RunEnvs ==
    [suspicion_mode : {"keywords", "llm", "off"},
     planning_mode : {"segmentation", "llm"},
     suspicion_llm_conf_threshold : {60},
     suspicion_llm_max_segments : {0, 1},
     suspicion_llm_min_text_chars : {4},
     suspicion_llm_cache_ttl_sec : {1},
     planner_llm_max_points : {0, 2},
     planner_min_gap_sec : {1},
     planner_max_extra_frames : {120},
     seg_safe_sample_sec : {3},
     seg_suspicious_sample_sec : {5},
     max_frames_per_segment : {2}]

\* what the provider may answer to the three prompts
FailureReplies == {[kind |-> k] : k \in {"error", "nondict", "raise"}}

SuspicionReply(s, c) ==
    [kind |-> "ok", suspicious |-> s, confidence |-> c,
     category |-> IF s THEN "drugs" ELSE "None", reason |-> "as judged"]

SuspicionReplies ==
    {SuspicionReply(FALSE, 30), SuspicionReply(TRUE, 30), SuspicionReply(FALSE, 150)}
    \cup FailureReplies

PlannerReplies ==
    {[kind |-> "ok", points |-> p, reason |-> "as judged"] :
        p \in {<<3, 1, 2>>, <<2, 9>>}} \cup FailureReplies

\* "_token_usage": absent, a dict of counts, or a dict whose counts are no numbers
MalformedUsage == [malformed |-> TRUE]

TokenUsages == {None, MalformedUsage, [prompt_tokens |-> 1, completion_tokens |-> 1]}

DecideReply(h, c, u) ==
    [kind |-> "ok", pred_is_harmful |-> h, confidence |-> c, token_usage |-> u]

DecideReplies ==
    {DecideReply(TRUE, -200, None),
     DecideReply(TRUE, 295, [prompt_tokens |-> 1, completion_tokens |-> 1]),
     DecideReply(TRUE, 2500, MalformedUsage),
     DecideReply(FALSE, 2500, [prompt_tokens |-> 1, completion_tokens |-> 1])}
    \cup FailureReplies

SegmentsOf(texts) ==
    [k \in 1..Len(texts) |->
        [start |-> (k - 1) * SegLen, end |-> k * SegLen, text |-> texts[k]]]

Store == [cache |-> cache, timestamps |-> cache_timestamps]

HistInit ==
    [step |-> "none", key |-> "None", llm_path |-> FALSE, provider_called |-> FALSE,
     fresh_before |-> FALSE, calls_before |-> 0, points_before |-> 0,
     returned |-> None, propose_invoked |-> FALSE, decision |-> None,
     events_before |-> 0, emitted_for |-> <<>>,
     llm_exhausted |-> FALSE, points_exhausted |-> FALSE,
     llm_scored |-> 0, propose_calls |-> 0, stored |-> <<>>,
     sampled |-> None]

RunInit ==
    /\ IdleExcept("run")
    /\ cache = <<>> /\ cache_timestamps = <<>> /\ now = 0
    /\ hist = HistInit
    /\ \E env \in RunEnvs, n \in 0..MaxRunSegs : \E texts \in [1..n -> RunTexts] :
        run = [pc |-> "start", runs |-> 0, env |-> env, segments |-> SegmentsOf(texts),
               i |-> 0, suspicion_mode |-> env.suspicion_mode,
               suspicion_llm_calls |-> 0, planned_points_total |-> 0,
               suspicion_result |-> None, planned_timestamps |-> <<>>,
               harmful_events |-> <<>>,
               total_tokens |-> [prompt_tokens |-> 0, completion_tokens |-> 0]]

\* "suspicion_llm_calls >= planner_cfg.suspicion_llm_max_segments" (lines 670, 691)
\* and the negation of "planned_points_total < planner_cfg.planner_llm_max_points" (702)
BudgetExhaustedOnlyBeyond(used, ceiling) == used > ceiling

BudgetExhausted(used, ceiling) == used >= ceiling

\* lines 684-686, with and without the test of _cache_hit
CountsCacheHitsToo(configured_mode, suspicion_result) ==
    /\ configured_mode = "llm"
    /\ DictGet(suspicion_result, "method", "None") = "llm"

CountsAgainstBudget(configured_mode, suspicion_result) ==
    /\ configured_mode = "llm"
    /\ DictGet(suspicion_result, "method", "None") = "llm"
    /\ ~DictGet(suspicion_result, "_cache_hit", FALSE)

\* "planned_timestamps = proposed_points[:remaining_budget]", and without the slice
AcceptAll(proposed_points, remaining_budget) == proposed_points

AcceptWithinBudget(proposed_points, remaining_budget) ==
    Prefix(proposed_points, remaining_budget)

\* "if decision['is_harmful']", and an event for every decision
EmitsEventAlways(decision) == TRUE

EmitsEvent(decision) == decision.is_harmful

\* the history of a step that begins: nothing done yet
Quiet(step) ==
    [hist EXCEPT !.step = step, !.key = "None", !.llm_path = FALSE,
                 !.provider_called = FALSE, !.fresh_before = FALSE,
                 !.calls_before = run.suspicion_llm_calls,
                 !.points_before = run.planned_points_total,
                 !.returned = None, !.propose_invoked = FALSE, !.decision = None,
                 !.events_before = Len(run.harmful_events), !.sampled = None]

\* the history records whether a counter has reached its ceiling in this run
Observe(h, r) ==
    [h EXCEPT !.llm_exhausted =
                  @ \/ r.suspicion_llm_calls >= r.env.suspicion_llm_max_segments,
              !.points_exhausted =
                  @ \/ r.planned_points_total >= r.env.planner_llm_max_points]

\* "continue", or the end of the loop body: on to the next segment
NextSegment(r) ==
    [r EXCEPT !.i = @ + 1,
              !.pc = IF r.i + 1 > Len(r.segments) THEN "done" ELSE "score",
              !.suspicion_result = None, !.planned_timestamps = <<>>]

\* analyze_segments is called (lines 636-651), at once or some time after the
\* run before it
StartRun ==
    /\ run.pc \in {"start", "done"}
    /\ run.runs < MaxRuns
    /\ \E later \in now..(IF run.pc = "start" THEN now ELSE MaxTime) : now' = later
    /\ LET r == NextSegment([run EXCEPT !.runs = @ + 1, !.i = 0,
                                        !.suspicion_mode = run.env.suspicion_mode,
                                        !.suspicion_llm_calls = 0,
                                        !.planned_points_total = 0,
                                        !.harmful_events = <<>>,
                                        !.total_tokens = [prompt_tokens |-> 0,
                                                          completion_tokens |-> 0]])
       IN  /\ run' = r
           /\ hist' = Observe([HistInit EXCEPT !.step = "start", !.stored = hist.stored], r)
    /\ UNCHANGED <<cache, cache_timestamps, normVars, mrgVars, kwVars, extVars>>

\* the four fields of a suspicion result that the caller reads
Verdict(result) ==
    [suspicious |-> result.suspicious, confidence |-> result.confidence,
     category |-> result.category, reason |-> result.reason]

\* the key is stored and within its TTL (lines 124-134)
FreshInCache(key, ttl_sec) ==
    /\ key \in DOMAIN cache
    /\ key \in DOMAIN cache_timestamps
    /\ now - cache_timestamps[key] <= ttl_sec

\* lines 661-696: the transcript of the segment, its suspicion score, the budget
Score ==
    /\ run.pc = "score"
    /\ \E reply \in SuspicionReplies :
        LET segment == run.segments[run.i]
            seg_index == run.i - 1
            ceiling == run.env.suspicion_llm_max_segments
            key == cache_key(VideoId, seg_index, TextHash(segment.text), "suspicion")
            current_suspicion_mode ==
                IF run.suspicion_mode = "llm"
                   /\ BudgetExhausted(run.suspicion_llm_calls, ceiling)
                THEN "keywords" ELSE run.suspicion_mode
            scored == ScoreSuspicion(segment.text, current_suspicion_mode, run.env,
                                     VideoId, seg_index, "given", reply, Store, now)
            suspicion_llm_calls ==
                IF CountsAgainstBudget(run.suspicion_mode, scored.result)
                THEN run.suspicion_llm_calls + 1 ELSE run.suspicion_llm_calls
            suspicion_mode ==
                IF run.suspicion_mode = "llm" /\ BudgetExhausted(suspicion_llm_calls, ceiling)
                THEN "keywords" ELSE run.suspicion_mode
            r == [run EXCEPT !.pc = "plan", !.suspicion_result = scored.result,
                             !.suspicion_llm_calls = suspicion_llm_calls,
                             !.suspicion_mode = suspicion_mode]
            llm_path == current_suspicion_mode = "llm"
            stores == /\ scored.provider_called
                      /\ DictGet(scored.llm_result, "_cache_hit", TRUE) = FALSE
            stored == IF stores THEN DictSet(hist.stored, key, Verdict(scored.llm_result))
                      ELSE hist.stored
            h == [Quiet("score") EXCEPT
                     !.key = key, !.llm_path = llm_path,
                     !.provider_called = scored.provider_called,
                     !.fresh_before =
                         llm_path /\ FreshInCache(key, run.env.suspicion_llm_cache_ttl_sec),
                     !.returned = scored.llm_result,
                     !.llm_scored = IF llm_path THEN @ + 1 ELSE @,
                     !.stored = [k \in (DOMAIN stored) \cap (DOMAIN scored.store.cache)
                                    |-> stored[k]]]
        IN  /\ run' = r
            /\ cache' = scored.store.cache
            /\ cache_timestamps' = scored.store.timestamps
            /\ hist' = Observe(h, r)
    /\ UNCHANGED <<now, normVars, mrgVars, kwVars, extVars>>

\* lines 698-721: the planner proposes probe points, charged to the budget
Plan ==
    /\ run.pc = "plan"
    /\ \E reply \in PlannerReplies :
        LET segment == run.segments[run.i]
            ceiling == run.env.planner_llm_max_points
            is_suspicious == run.suspicion_result.suspicious
            wanted == /\ run.env.planning_mode \in {"llm", "hybrid"}
                      /\ is_suspicious
                      /\ ~BudgetExhausted(run.planned_points_total, ceiling)
            proposed == ProposePoints(segment.text, segment.start, segment.end, run.env,
                                      VideoId, run.i - 1, "given", reply, Store, now)
            remaining_budget == ceiling - run.planned_points_total
            planned_timestamps ==
                IF wanted /\ ~proposed.raised
                THEN AcceptWithinBudget(proposed.points, remaining_budget)
                ELSE <<>>
            r == [run EXCEPT !.pc = "analyze", !.planned_timestamps = planned_timestamps,
                             !.planned_points_total = @ + Len(planned_timestamps)]
            h == [Quiet("plan") EXCEPT !.propose_invoked = wanted,
                                       !.propose_calls = IF wanted THEN @ + 1 ELSE @]
        IN  /\ run' = r
            /\ cache' = IF wanted THEN proposed.store.cache ELSE cache
            /\ cache_timestamps' = IF wanted THEN proposed.store.timestamps
                                   ELSE cache_timestamps
            /\ hist' = Observe(h, r)
    /\ UNCHANGED <<now, normVars, mrgVars, kwVars, extVars>>

\* lines 819-824: the sum over a malformed usage raises before it adds anything
AddTokens(total_tokens, tokens_used) ==
    IF tokens_used \in {None, MalformedUsage} THEN total_tokens
    ELSE [prompt_tokens |-> total_tokens.prompt_tokens + tokens_used.prompt_tokens,
          completion_tokens |->
              total_tokens.completion_tokens + tokens_used.completion_tokens]

\* lines 789-806; analysis_performed, explanation and categories are left out
HarmfulEvent(segment, num_frames, decision, suspicion_result, planning_mode, planned_timestamps) ==
    [segment_start |-> format_timestamp(segment.start),
     segment_end |-> format_timestamp(segment.end),
     num_frames |-> num_frames,
     audio_evidence |-> segment.text,
     is_harmful |-> TRUE,
     confidence |-> ScaleConfidence(decision.confidence),
     suspicion_method |-> DictGet(suspicion_result, "method", "unknown"),
     planning_mode |-> planning_mode,
     planned_points |-> Len(planned_timestamps)]

\* lines 723-858: timestamps, frames, evidence, decision, event, token usage
Analyze ==
    /\ run.pc = "analyze"
    /\ \E extracted \in {0, run.env.max_frames_per_segment}, reply \in DecideReplies :
        LET segment == run.segments[run.i]
            cap == run.env.max_frames_per_segment
            is_suspicious == run.suspicion_result.suspicious
            interval == IF is_suspicious THEN run.env.seg_suspicious_sample_sec
                        ELSE run.env.seg_safe_sample_sec
            periodic_timestamps ==
                PeriodicTimestamps(segment.start, segment.end, interval, cap)
            remaining_points_budget ==
                run.env.planner_llm_max_points - run.planned_points_total
            final_timestamps ==
                IF run.planned_timestamps # <<>>
                THEN MergeTimestampsWithPlanning(periodic_timestamps,
                         run.planned_timestamps, run.env, cap, remaining_points_budget)
                ELSE periodic_timestamps
            frame_infos == SampleFrames(segment.start, segment.end, cap,
                                        final_timestamps, extracted)
            decision == LLMDecide(reply)
            event == HarmfulEvent(segment, Len(frame_infos), decision,
                         run.suspicion_result, run.env.planning_mode,
                         run.planned_timestamps)
            emits == frame_infos # <<>> /\ EmitsEvent(decision)
            r == IF frame_infos = <<>> THEN NextSegment(run)
                 ELSE NextSegment(
                        [run EXCEPT !.harmful_events = IF emits THEN Append(@, event) ELSE @,
                                    !.total_tokens =
                                        AddTokens(@, DictGet(decision, "_token_usage", None))])
            h == [Quiet("analyze") EXCEPT
                     !.decision = IF frame_infos = <<>> THEN None ELSE decision,
                     !.sampled = [segment |-> segment, is_suspicious |-> is_suspicious,
                                  interval |-> interval,
                                  periodic_timestamps |-> periodic_timestamps,
                                  planned_timestamps |-> run.planned_timestamps,
                                  remaining_points_budget |-> remaining_points_budget,
                                  final_timestamps |-> final_timestamps],
                     !.emitted_for = IF emits THEN Append(@, run.i - 1) ELSE @]
        IN  /\ run' = r
            /\ hist' = Observe(h, r)
    /\ UNCHANGED <<cache, cache_timestamps, now, normVars, mrgVars, kwVars, extVars>>

\* the exception leaves analyze_segments: the rest of the segments is not seen
AbortRun(r) ==
    [r EXCEPT !.i = Len(r.segments) + 1, !.pc = "done",
              !.suspicion_result = None, !.planned_timestamps = <<>>]

\* lines 860-862: "except Exception as e: logger.error(...); continue"
SkipSegment(r) == NextSegment(r)

\* an exception of the loop body in the transcript extraction (before the score),
\* in the scoring or the planning (before the plan is made), in the sampling, the
\* evidence gathering or the decision (before an event is made): what the
\* earlier steps of the segment did to the counters and the cache stays
SegmentRaises ==
    /\ run.pc \in {"score", "plan", "analyze"}
    /\ run' = SkipSegment(run)
    /\ hist' = Observe(Quiet("skip"), SkipSegment(run))
    /\ UNCHANGED <<cache, cache_timestamps, now, normVars, mrgVars, kwVars, extVars>>

Next == StartRun \/ Score \/ Plan \/ Analyze \/ SegmentRaises

Spec == RunInit /\ [][Next]_vars

(***************************************************************************)
(* One segment scored as analyze_segments scores it (lines 674-687), with  *)
(* the LLM that the caller passes or does not pass.                        *)
(***************************************************************************)

\* MockLLMProvider.invoke, as suspicion_score reads it: no "suspicious", no
\* "category", no "reason", confidence 0.5
MockReply ==
    [kind |-> "ok", suspicious |-> FALSE, confidence |-> 50, category |-> "None",
     reason |-> ""]

\* the llm argument of suspicion_score and propose_points: passed is whether the
\* caller gives a SafetyLLM, credentials whether OPENROUTER_API_KEY is set (the
\* backend is openrouter)
LLMArgument(passed, credentials) ==
    IF passed THEN "given" ELSE IF credentials THEN "created" ELSE "unavailable"

\* SafetyLLM._init_openrouter_provider: without a key the provider is the mock
ProviderReplies(passed, credentials, replies) ==
    IF passed /\ ~credentials THEN {MockReply} ELSE replies

ScoreConfigs ==
    [suspicion_llm_conf_threshold : {40, 60},
     suspicion_llm_min_text_chars : {4},
     suspicion_llm_cache_ttl_sec : {1}]

ScoreInit ==
    /\ IdleExcept("sc")
    /\ \E text \in RunTexts, mode \in {"keywords", "llm"}, cfg \in ScoreConfigs,
          passed \in BOOLEAN, credentials \in BOOLEAN :
          \E reply \in ProviderReplies(passed, credentials, SuspicionReplies) :
             sc = [phase |-> "call", text |-> text, mode |-> mode, cfg |-> cfg,
                   passed |-> passed, credentials |-> credentials, reply |-> reply,
                   suspicion_result |-> None, suspicion_llm_calls |-> 0,
                   provider_called |-> FALSE, cache |-> <<>>]

\* lines 674-687: score_suspicion, then the count of LLM calls
ScoreSegment ==
    /\ sc.phase = "call"
    /\ LET scored == ScoreSuspicion(sc.text, sc.mode, sc.cfg, VideoId, 0,
                                    LLMArgument(sc.passed, sc.credentials), sc.reply,
                                    [cache |-> <<>>, timestamps |-> <<>>], 0)
       IN  sc' = [sc EXCEPT !.phase = "done",
                            !.suspicion_result = scored.result,
                            !.suspicion_llm_calls =
                                IF CountsAgainstBudget(sc.mode, scored.result)
                                THEN 1 ELSE 0,
                            !.provider_called = scored.provider_called,
                            !.cache = scored.store.cache]
    /\ Frame("sc")

ScoreNext == ScoreSegment

SpecScore == ScoreInit /\ [][ScoreNext]_vars

(***************************************************************************)
(* runtime/gpu_guard.py: the process-wide guard.  A unit is a thread of    *)
(* the background-task pool running one analysis (enqueue.py: run_analysis *)
(* with its own event loop).  A threading.Semaphore object is an entry of  *)
(* gpu.semaphores, its value the permits left; _gpu_semaphore is the index *)
(* of the current object, 0 for None.                                      *)
(***************************************************************************)
MaxUnits == 3
MaxInitCalls == 1
MaxConcurrent == 2

Units == 1..MaxUnits

\* GPU_MAX_CONCURRENT
GpuMaxConcurrentValues == (0 - 1)..MaxConcurrent

GpuInit ==
    /\ IdleExcept("gpu")
    /\ \E n \in GpuMaxConcurrentValues :
          gpu = [GPU_MAX_CONCURRENT |-> n,
                 semaphores |-> <<>>, _gpu_semaphore |-> 0,
                 _gpu_active_count |-> 0, _gpu_max_concurrent |-> 0,
                 init_calls |-> 0,
                 units |-> [u \in Units |-> [pc |-> "idle", held |-> 0]]]

\* initialize_gpu_guard, lines 25-40
InitializeGuard(g) ==
    IF g.GPU_MAX_CONCURRENT <= 0
    THEN [g EXCEPT !._gpu_semaphore = 0, !._gpu_active_count = 0,
                   !._gpu_max_concurrent = 0]
    ELSE [g EXCEPT !.semaphores = Append(@, g.GPU_MAX_CONCURRENT),
                   !._gpu_semaphore = Len(g.semaphores) + 1,
                   !._gpu_active_count = 0,
                   !._gpu_max_concurrent = g.GPU_MAX_CONCURRENT]

At(g, u, pc) == [g EXCEPT !.units[u].pc = pc]

\* api.py line 15, or any other caller of initialize_gpu_guard
InitializeGpuGuard ==
    /\ gpu.init_calls < MaxInitCalls
    /\ gpu' = [InitializeGuard(gpu) EXCEPT !.init_calls = @ + 1]
    /\ Frame("gpu")

\* gather_evidence line 270: "async with gpu_guard(...)" is entered
EnterGuard(u) ==
    /\ gpu.units[u].pc = "idle"
    /\ gpu' = At(gpu, u, "line59")
    /\ Frame("gpu")

\* line 59: "if _gpu_semaphore is None and GPU_MAX_CONCURRENT > 0"
LazyTest(u) ==
    /\ gpu.units[u].pc = "line59"
    /\ gpu' = At(gpu, u, IF gpu._gpu_semaphore = 0 /\ gpu.GPU_MAX_CONCURRENT > 0
                         THEN "line60" ELSE "line63")
    /\ Frame("gpu")

\* line 60: initialize_gpu_guard()
LazyInitialize(u) ==
    /\ gpu.units[u].pc = "line60"
    /\ gpu' = At(InitializeGuard(gpu), u, "line63")
    /\ Frame("gpu")

\* lines 63-66: without a semaphore the body runs unguarded
BypassTest(u) ==
    /\ gpu.units[u].pc = "line63"
    /\ gpu' = At(gpu, u, IF gpu._gpu_semaphore = 0 THEN "body" ELSE "line71")
    /\ Frame("gpu")

\* line 71: _gpu_semaphore.acquire, on the object that the global names now;
\* it blocks while that object has no permit
Acquire(u) ==
    /\ gpu.units[u].pc = "line71"
    /\ gpu._gpu_semaphore # 0
    /\ gpu.semaphores[gpu._gpu_semaphore] > 0
    /\ gpu' = [gpu EXCEPT !.semaphores[gpu._gpu_semaphore] = @ - 1,
                          !.units[u] = [pc |-> "line72", held |-> gpu._gpu_semaphore]]
    /\ Frame("gpu")

\* lines 72-73
CountUp(u) ==
    /\ gpu.units[u].pc = "line72"
    /\ gpu' = [gpu EXCEPT !._gpu_active_count = @ + 1, !.units[u].pc = "body"]
    /\ Frame("gpu")

\* lines 77-80 (after a bypass: line 66): the body is left; the release goes to
\* the object that the global names now
LeaveGuard(u) ==
    /\ gpu.units[u].pc = "body"
    /\ gpu' = IF gpu.units[u].held = 0 \/ gpu._gpu_semaphore = 0
              THEN [gpu EXCEPT !.units[u] = [pc |-> "idle", held |-> 0]]
              ELSE [gpu EXCEPT !._gpu_active_count = Max2(0, @ - 1),
                               !.semaphores[gpu._gpu_semaphore] = @ + 1,
                               !.units[u] = [pc |-> "idle", held |-> 0]]
    /\ Frame("gpu")

\* segmentation.py lines 296-311: the ViT forward passes of find_visual_boundaries
EmbedStart(u) ==
    /\ gpu.units[u].pc = "idle"
    /\ gpu' = At(gpu, u, "embedding")
    /\ Frame("gpu")

EmbedEnd(u) ==
    /\ gpu.units[u].pc = "embedding"
    /\ gpu' = At(gpu, u, "idle")
    /\ Frame("gpu")

GpuNext ==
    \/ InitializeGpuGuard
    \/ \E u \in Units : EnterGuard(u)
    \/ \E u \in Units : LazyTest(u)
    \/ \E u \in Units : LazyInitialize(u)
    \/ \E u \in Units : BypassTest(u)
    \/ \E u \in Units : Acquire(u)
    \/ \E u \in Units : CountUp(u)
    \/ \E u \in Units : LeaveGuard(u)
    \/ \E u \in Units : EmbedStart(u)
    \/ \E u \in Units : EmbedEnd(u)

SpecGpu == GpuInit /\ [][GpuNext]_vars

(***************************************************************************)
(* propose_points called directly, again and again for the same video and  *)
(* segment index, with the bounds, the gap and the LLM of each call.       *)
(***************************************************************************)
MaxCalls == 2
MaxSegStart == 4
MaxPlanGap == 2

\* LLMPlannerConfig values that validate() accepts (lines 97-103: the gap and
\* the ceilings are only required not to be negative)
PlannerConfigs ==
    [planner_min_gap_sec : 0..MaxPlanGap,
     suspicion_llm_min_text_chars : {4},
     suspicion_llm_cache_ttl_sec : {1}]

PointsTexts == {<<" ", "g", "u", "n", " ">>, <<"h", "e", "l", "l", "o">>}

PointsInit ==
    /\ IdleExcept("pp")
    /\ pp = [calls |-> 0, text |-> <<>>, seg_start |-> 0, seg_end |-> 0,
             cfg |-> None, passed |-> FALSE, credentials |-> FALSE,
             reply |-> None, cached_before |-> FALSE, points |-> <<>>,
             raised |-> FALSE, provider_called |-> FALSE]

\* one call propose_points(text, seg_start, seg_end, cfg, "v1", 0, llm)
CallProposePoints ==
    /\ pp.calls < MaxCalls
    /\ \E text \in PointsTexts, seg_start \in {0, MaxSegStart}, duration \in {2, 4},
          cfg \in PlannerConfigs, passed \in BOOLEAN, credentials \in BOOLEAN :
          \E reply \in ProviderReplies(passed, credentials, PlannerReplies) :
             LET key == cache_key(VideoId, 0, TextHash(text), "points")
                 proposed == ProposePoints(text, seg_start, seg_start + duration, cfg,
                                           VideoId, 0, LLMArgument(passed, credentials),
                                           reply, Store, now)
             IN  /\ pp' = [calls |-> pp.calls + 1, text |-> text,
                           seg_start |-> seg_start, seg_end |-> seg_start + duration,
                           cfg |-> cfg, passed |-> passed, credentials |-> credentials,
                           reply |-> reply,
                           cached_before |->
                               FreshInCache(key, cfg.suspicion_llm_cache_ttl_sec),
                           points |-> proposed.points, raised |-> proposed.raised,
                           provider_called |-> proposed.provider_called]
                 /\ cache' = proposed.store.cache
                 /\ cache_timestamps' = proposed.store.timestamps
    /\ UNCHANGED <<now, run, hist, normVars, mrgVars, kwVars, sc, gpu, cc, task, split, proc, smp>>

PointsNext == CallProposePoints

SpecPoints == PointsInit /\ [][PointsNext]_vars

(***************************************************************************)
(* llm_planner.py: _get_cached_result and _set_cached_result run by two    *)
(* analyses at once (two threads of the background-task pool), on one key, *)
(* statement by statement.  The value that a thread stores is its number.  *)
(***************************************************************************)
MaxOps == 2
MaxClock == 2

Runners == 1..2

CacheTtl == 1

SharedKey == cache_key(VideoId, 0, TextHash(<<"h", "e", "l", "l", "o">>), "suspicion")

\* a runner outside the two functions; outcome is how its last call ended
RunnerIdle ==
    [pc |-> "idle", op |-> "none", ops |-> 0, cached_time |-> 0,
     outcome |-> "none", result |-> 0, expect |-> 0, expect_at |-> 0, writes_seen |-> 0]

CacheInit ==
    /\ IdleExcept("cc")
    /\ cc = [runners |-> [p \in Runners |-> RunnerIdle],
             writes |-> 0, completed |-> 0, completed_at |-> 0]

Storing == \E p \in Runners : cc.runners[p].pc = "line146"

CacheFrame == UNCHANGED <<run, hist, normVars, mrgVars, kwVars, sc, pp, gpu, task, split, proc, smp>>

\* the end of a call of _get_cached_result: a value, None (0), or a KeyError
Return(p, outcome, result) ==
    cc' = [cc EXCEPT !.runners[p].pc = "idle", !.runners[p].outcome = outcome,
                     !.runners[p].result = result]

Goto(p, pc) == cc' = [cc EXCEPT !.runners[p].pc = pc]

\* time.time() moves on
Tick ==
    /\ now < MaxClock
    /\ now' = now + 1
    /\ UNCHANGED <<cache, cache_timestamps, cc>>
    /\ CacheFrame

\* _get_cached_result(key, ttl_sec) is called; the history notes the store that
\* has completed by now, if no store is under way
CallGet(p) ==
    /\ cc.runners[p].pc = "idle" /\ cc.runners[p].ops < MaxOps
    /\ cc' = [cc EXCEPT !.runners[p] =
                 [RunnerIdle EXCEPT !.pc = "line124", !.op = "get",
                                    !.ops = cc.runners[p].ops + 1,
                                    !.expect = IF Storing THEN 0 ELSE cc.completed,
                                    !.expect_at = cc.completed_at,
                                    !.writes_seen = cc.writes]]
    /\ UNCHANGED <<cache, cache_timestamps, now>>
    /\ CacheFrame

\* lines 124-125: "if key not in _cache: return None"
Line124(p) ==
    /\ cc.runners[p].pc = "line124"
    /\ IF SharedKey \notin DOMAIN cache THEN Return(p, "returned", 0)
       ELSE Goto(p, "line127")
    /\ UNCHANGED <<cache, cache_timestamps, now>>
    /\ CacheFrame

\* line 127: "if key not in _cache_timestamps"
Line127(p) ==
    /\ cc.runners[p].pc = "line127"
    /\ Goto(p, IF SharedKey \notin DOMAIN cache_timestamps THEN "line129" ELSE "line133")
    /\ UNCHANGED <<cache, cache_timestamps, now>>
    /\ CacheFrame

\* lines 129-130: "del _cache[key]; return None"
Line129(p) ==
    /\ cc.runners[p].pc = "line129"
    /\ IF SharedKey \in DOMAIN cache
       THEN cache' = DictDel(cache, SharedKey) /\ Return(p, "returned", 0)
       ELSE cache' = cache /\ Return(p, "raised", 0)
    /\ UNCHANGED <<cache_timestamps, now>>
    /\ CacheFrame

\* line 133: "cached_time = _cache_timestamps[key]"
Line133(p) ==
    /\ cc.runners[p].pc = "line133"
    /\ IF SharedKey \in DOMAIN cache_timestamps
       THEN cc' = [cc EXCEPT !.runners[p].pc = "line134",
                             !.runners[p].cached_time = cache_timestamps[SharedKey]]
       ELSE Return(p, "raised", 0)
    /\ UNCHANGED <<cache, cache_timestamps, now>>
    /\ CacheFrame

\* line 134: "if time.time() - cached_time > ttl_sec"
Line134(p) ==
    /\ cc.runners[p].pc = "line134"
    /\ Goto(p, IF now - cc.runners[p].cached_time > CacheTtl THEN "line136" ELSE "line140")
    /\ UNCHANGED <<cache, cache_timestamps, now>>
    /\ CacheFrame

\* line 136: "del _cache[key]"
Line136(p) ==
    /\ cc.runners[p].pc = "line136"
    /\ IF SharedKey \in DOMAIN cache
       THEN cache' = DictDel(cache, SharedKey) /\ Goto(p, "line137")
       ELSE cache' = cache /\ Return(p, "raised", 0)
    /\ UNCHANGED <<cache_timestamps, now>>
    /\ CacheFrame

\* lines 137-138: "del _cache_timestamps[key]; return None"
Line137(p) ==
    /\ cc.runners[p].pc = "line137"
    /\ IF SharedKey \in DOMAIN cache_timestamps
       THEN cache_timestamps' = DictDel(cache_timestamps, SharedKey)
            /\ Return(p, "returned", 0)
       ELSE cache_timestamps' = cache_timestamps /\ Return(p, "raised", 0)
    /\ UNCHANGED <<cache, now>>
    /\ CacheFrame

\* line 140: "return _cache[key]"
Line140(p) ==
    /\ cc.runners[p].pc = "line140"
    /\ IF SharedKey \in DOMAIN cache THEN Return(p, "returned", cache[SharedKey])
       ELSE Return(p, "raised", 0)
    /\ UNCHANGED <<cache, cache_timestamps, now>>
    /\ CacheFrame

\* _set_cached_result(key, result) is called, and line 145: "_cache[key] = result"
Line145(p) ==
    /\ cc.runners[p].pc = "idle" /\ cc.runners[p].ops < MaxOps
    /\ cache' = DictSet(cache, SharedKey, p)
    /\ cc' = [cc EXCEPT !.runners[p] =
                 [RunnerIdle EXCEPT !.pc = "line146", !.op = "set",
                                    !.ops = cc.runners[p].ops + 1],
                        !.writes = @ + 1]
    /\ UNCHANGED <<cache_timestamps, now>>
    /\ CacheFrame

\* line 146: "_cache_timestamps[key] = time.time()"; the store has completed
Line146(p) ==
    /\ cc.runners[p].pc = "line146"
    /\ cache_timestamps' = DictSet(cache_timestamps, SharedKey, now)
    /\ cc' = [cc EXCEPT !.runners[p].pc = "idle", !.runners[p].outcome = "returned",
                        !.writes = @ + 1, !.completed = p, !.completed_at = now]
    /\ UNCHANGED <<cache, now>>
    /\ CacheFrame

CacheNext ==
    \/ Tick
    \/ \E p \in Runners : CallGet(p)
    \/ \E p \in Runners : Line124(p)
    \/ \E p \in Runners : Line127(p)
    \/ \E p \in Runners : Line129(p)
    \/ \E p \in Runners : Line133(p)
    \/ \E p \in Runners : Line134(p)
    \/ \E p \in Runners : Line136(p)
    \/ \E p \in Runners : Line137(p)
    \/ \E p \in Runners : Line140(p)
    \/ \E p \in Runners : Line145(p)
    \/ \E p \in Runners : Line146(p)

SpecCache == CacheInit /\ [][CacheNext]_vars

(***************************************************************************)
(* services/analysis_pipeline.py: analyze_video_task, and mark_failure of  *)
(* services/failures.py.  run_status is the status of the AnalysisRun that *)
(* the task created, "none" before it is created.                          *)
(***************************************************************************)

\* what the task finds: the video row, the file, the model and its settings,
\* segments.json, SEGMENTATION_AUTO, whether the configuration is valid (from_env
\* and validate raise ValueError otherwise), whether the report can be written
TaskEnvs ==
    [video_found : BOOLEAN, file_exists : BOOLEAN,
     selected_model : {"SafeLens/llama-3-8b", "other"},
     credentials : BOOLEAN, segments_file : BOOLEAN,
     auto_segmentation_enabled : BOOLEAN, config_valid : BOOLEAN,
     report_written : BOOLEAN]

TaskInit ==
    /\ IdleExcept("task")
    /\ \E env \in TaskEnvs :
          task = [pc |-> "start", env |-> env, analysis_status |-> "pending",
                  run_status |-> "none", fatal |-> FALSE]

\* mark_failure(db, video, analysis_run, ...), lines 25-37: the video is set to
\* failed, and the run if one is passed
MarkFailure(t, analysis_run_passed) ==
    [t EXCEPT !.pc = "returned", !.fatal = TRUE,
              !.analysis_status = "failed",
              !.run_status = IF analysis_run_passed /\ t.run_status # "none"
                             THEN "failed" ELSE @]

TaskFrame == Frame("task")

\* lines 92-113: the video is looked up, the run is created as processing, the
\* video is set to processing, the file is looked for
CreateRun ==
    /\ task.pc = "start"
    /\ task' = IF ~task.env.video_found THEN [task EXCEPT !.pc = "returned"]
               ELSE LET t == [task EXCEPT !.run_status = "processing",
                                          !.analysis_status = "processing"]
                    IN  IF ~task.env.file_exists THEN MarkFailure(t, TRUE)
                        ELSE [t EXCEPT !.pc = "backend"]
    /\ TaskFrame

\* lines 122-154: the key or the URL that the backend of the model needs
GateBackend ==
    /\ task.pc = "backend"
    /\ task' = IF ~task.env.credentials THEN MarkFailure(task, TRUE)
               ELSE [task EXCEPT !.pc = "input"]
    /\ TaskFrame

\* lines 176, 299-310, 458-464: segments.json, or auto-segmentation, or neither
ChooseInput ==
    /\ task.pc = "input"
    /\ task' = IF task.env.segments_file THEN [task EXCEPT !.pc = "segments"]
               ELSE IF task.env.auto_segmentation_enabled
               THEN [task EXCEPT !.pc = "auto"]
               ELSE MarkFailure(task, FALSE)
    /\ TaskFrame

\* lines 177-296 and 310-456: the segments are analysed and the report is made;
\* an exception goes to the handler of lines 453-456 or 474-485, either of
\* which passes the run to mark_failure
Analyse ==
    /\ task.pc \in {"segments", "auto"}
    /\ task' = IF ~task.env.config_valid THEN MarkFailure(task, TRUE)
               ELSE [task EXCEPT !.pc = "report", !.run_status = "completed",
                                 !.analysis_status = "completed"]
    /\ TaskFrame

\* lines 284-296 and 440-451: the report is saved after the statuses are set
SaveReport ==
    /\ task.pc = "report"
    /\ task' = IF ~task.env.report_written THEN MarkFailure(task, TRUE)
               ELSE [task EXCEPT !.pc = "returned"]
    /\ TaskFrame

TaskNext == CreateRun \/ GateBackend \/ ChooseInput \/ Analyse \/ SaveReport

SpecTask == TaskInit /\ [][TaskNext]_vars
(***************************************************************************)
(* segmentation.py: split_long_segment, force_split_smart                  *)
(*                                                                         *)
(* Times are whole ticks, TicksPerSec to the second; the segments, the     *)
(* configurations and the boundaries drawn lie on whole seconds, so the    *)
(* even pieces of a force split into one, two or three are whole ticks.    *)
(***************************************************************************)

\* Bounds of the inputs drawn for split_long_segment, in seconds.
MaxSplitStart == 1
MaxSplitDur == 7
MaxTranscriptEnds == 1

TicksPerSec == 6

\* math.ceil(a / b) and math.floor(a / b) for a >= 0, b > 0
Ceil(a, b) == (a + b - 1) \div b
Floor(a, b) == a \div b

\* lines 465-488: the loop of force_split_smart from piece i on
RECURSIVE ForceSplitLoop(_, _, _, _, _, _)
ForceSplitLoop(i, current_start, end, num_segments, segment_duration, cfg) ==
    IF i >= num_segments THEN <<>>
    ELSE LET segment_end == IF i = num_segments - 1 THEN end
                            ELSE current_start + segment_duration
         IN  IF i = num_segments - 2 /\ (end - segment_end) < cfg.min_len_sec
             THEN <<Seg(current_start, end)>>
             ELSE <<Seg(current_start, segment_end)>>
                  \o ForceSplitLoop(i + 1, segment_end, end, num_segments, segment_duration, cfg)

\* force_split_smart(seg, cfg)
ForceSplitSmart(seg, cfg) ==
    LET duration == seg.end - seg.start
        even_segments == Ceil(duration, cfg.max_len_sec)
        \* duration / even_segments < min_len_sec, without the division
        num_segments == IF duration < cfg.min_len_sec * even_segments
                        THEN Max2(1, Floor(duration, cfg.min_len_sec))
                        ELSE even_segments
    IN  IF duration <= cfg.max_len_sec THEN <<seg>>
        ELSE ForceSplitLoop(0, seg.start, seg.end, num_segments, duration \div num_segments, cfg)

\* lines 373-385: the visual boundaries and the transcript ends strictly inside
\* the segment (line 391 makes them a sorted list without repetitions)
SplitCandidates(seg, visual_boundaries, transcript_ends) ==
    visual_boundaries \cup {t \in transcript_ends : seg.start < t /\ t < seg.end}

\* lines 397-410: the walk over the sorted candidates
RECURSIVE ValidSplits(_, _, _, _)
ValidSplits(valid_splits, candidates, end, cfg) ==
    IF candidates = <<>> THEN valid_splits
    ELSE LET candidate == Head(candidates)
             prev_end == valid_splits[Len(valid_splits)]
             remaining == end - candidate
             walked ==
                 IF candidate <= prev_end THEN valid_splits
                 ELSE IF candidate - prev_end >= cfg.min_len_sec
                      THEN IF remaining >= cfg.min_len_sec
                           THEN Append(valid_splits, candidate)
                           ELSE IF Len(valid_splits) > 1
                                THEN [valid_splits EXCEPT ![Len(valid_splits)] = candidate]
                                ELSE valid_splits
                      ELSE valid_splits
         IN  ValidSplits(walked, Tail(candidates), end, cfg)

\* line 420: a piece is returned if it is at least min_len_sec long
KeepsPiece(piece, cfg) == piece.end - piece.start >= cfg.min_len_sec

\* lines 415-425: the pieces between consecutive split points that are kept
ResultSegments(valid_splits, cfg) ==
    SelectSeq([i \in 1..(Len(valid_splits) - 1) |-> Seg(valid_splits[i], valid_splits[i + 1])],
              LAMBDA piece : KeepsPiece(piece, cfg))

\* split_long_segment(seg, video_path, transcript, image_processor, vit_model, cfg);
\* visual_boundaries is what find_visual_boundaries returns for the segment
SplitLongSegment(seg, visual_boundaries, transcript_ends, cfg) ==
    LET candidates == SplitCandidates(seg, visual_boundaries, transcript_ends)
        valid_splits == Append(ValidSplits(<<seg.start>>, SortedSeq(candidates), seg.end, cfg),
                               seg.end)
        result_segments == ResultSegments(valid_splits, cfg)
    IN  IF seg.end - seg.start <= cfg.max_len_sec THEN <<seg>>
        ELSE IF candidates = {} THEN ForceSplitSmart(seg, cfg)
        ELSE IF result_segments = <<>> THEN ForceSplitSmart(seg, cfg)
        ELSE result_segments

\* min_len_sec and max_len_sec as validate() accepts them
SplitConfigs ==
    {c \in [min_len_sec : {2 * TicksPerSec, 3 * TicksPerSec},
            max_len_sec : {3 * TicksPerSec, 4 * TicksPerSec}] :
        c.min_len_sec > 0 /\ c.max_len_sec > c.min_len_sec}

\* whole seconds strictly inside the segment: find_visual_boundaries keeps a
\* boundary only if start < boundary_time < end (line 329)
Inside(seg) == {t \in (seg.start + 1)..(seg.end - 1) : t % TicksPerSec = 0}

\* whole seconds where a transcript segment may end, inside the segment or not
TranscriptEnds(seg) == {t \in 0..(seg.end + TicksPerSec) : t % TicksPerSec = 0}

SplitInit ==
    /\ IdleExcept("split")
    /\ \E s \in 0..MaxSplitStart, d \in 1..MaxSplitDur :
        LET seg == Seg(s * TicksPerSec, (s + d) * TicksPerSec)
        IN  \E visual_boundaries \in SUBSET Inside(seg),
               transcript_ends \in {e \in SUBSET TranscriptEnds(seg) :
                                        Cardinality(e) <= MaxTranscriptEnds} :
                split = [phase |-> "call", seg |-> seg, cfg |-> <<>>,
                         visual_boundaries |-> visual_boundaries,
                         transcript_ends |-> transcript_ends, out |-> <<>>]

Split ==
    /\ split.phase = "call"
    /\ \E cfg \in SplitConfigs :
        split' = [split EXCEPT !.phase = "done", !.cfg = cfg,
                    !.out = SplitLongSegment(split.seg, split.visual_boundaries,
                                             split.transcript_ends, cfg)]
    /\ Frame("split")

SplitNext == Split

SpecSplit == SplitInit /\ [][SplitNext]_vars

(***************************************************************************)
(* segmentation.py: process_segments, merge_tiny_segments                  *)
(***************************************************************************)

\* Bounds of the inputs drawn for process_segments: the number of transcript
\* segments, their gaps and durations in seconds, the scene changes a pass sees.
MaxTranscriptSegs == 3
MaxProcGap == 2
MaxProcDur == 4
MaxSceneChanges == 1
MaxIterations == 2

\* segments.sort(key=lambda x: x['start']): stable, by start alone
RECURSIVE InsertByStart(_, _)
InsertByStart(sorted, x) ==
    IF sorted = <<>> THEN <<x>>
    ELSE IF Head(sorted).start <= x.start THEN <<Head(sorted)>> \o InsertByStart(Tail(sorted), x)
    ELSE <<x>> \o sorted

RECURSIVE SortByStart(_)
SortByStart(segments) ==
    IF segments = <<>> THEN <<>>
    ELSE InsertByStart(SortByStart(SubSeq(segments, 1, Len(segments) - 1)),
                       segments[Len(segments)])

\* lines 611-640: merge a short segment with the one after it
RECURSIVE MergeShort(_, _)
MergeShort(segments, cfg) ==
    IF segments = <<>> THEN <<>>
    ELSE LET current == Head(segments)
             current_duration == current.end - current.start
         IN  IF current_duration < cfg.min_len_sec /\ Len(segments) > 1
             THEN LET next_seg == segments[2]
                      merged_duration == next_seg.end - current.start
                  IN  IF merged_duration * 100 <= cfg.max_len_sec * cfg.merge_threshold_factor
                      THEN <<Seg(current.start, next_seg.end)>>
                           \o MergeShort(SubSeq(segments, 3, Len(segments)), cfg)
                      ELSE <<current>> \o MergeShort(Tail(segments), cfg)
             ELSE <<current>> \o MergeShort(Tail(segments), cfg)

\* what find_visual_boundaries returns for a segment of a video whose scenes
\* change at scene_changes
VisualBoundaries(seg, scene_changes) == {t \in scene_changes : seg.start < t /\ t < seg.end}

\* transcript: the t_seg['end'] of the transcript segments
EndsOf(transcript_segments) ==
    {transcript_segments[i].end : i \in 1..Len(transcript_segments)}

\* lines 643-654: split the segments longer than max_len_sec
RECURSIVE SplitLong(_, _, _, _)
SplitLong(segments, scene_changes, transcript_segments, cfg) ==
    IF segments = <<>> THEN <<>>
    ELSE LET seg == Head(segments)
             split_result ==
                 IF seg.end - seg.start > cfg.max_len_sec
                 THEN SplitLongSegment(seg, VisualBoundaries(seg, scene_changes),
                                       EndsOf(transcript_segments), cfg)
                 ELSE <<seg>>
         IN  split_result \o SplitLong(Tail(segments), scene_changes, transcript_segments, cfg)

\* merge_tiny_segments(segments, video_path, transcript, image_processor, vit_model, cfg)
RECURSIVE MergeTinyLoop(_, _, _, _)
MergeTinyLoop(segments, scene_changes, transcript_segments, cfg) ==
    IF segments = <<>> THEN <<>>
    ELSE LET current_seg == Head(segments)
             current_duration == current_seg.end - current_seg.start
         IN  IF current_duration >= cfg.min_len_sec
             THEN <<current_seg>>
                  \o MergeTinyLoop(Tail(segments), scene_changes, transcript_segments, cfg)
             ELSE IF Len(segments) > 1
             THEN LET next_seg == segments[2]
                      merged_duration == next_seg.end - current_seg.start
                      merged_seg == Seg(current_seg.start, next_seg.end)
                  IN  IF merged_duration * 10 <= cfg.max_len_sec * 15
                      THEN (IF merged_duration > cfg.max_len_sec
                            THEN SplitLongSegment(merged_seg,
                                                  VisualBoundaries(merged_seg, scene_changes),
                                                  EndsOf(transcript_segments), cfg)
                            ELSE <<merged_seg>>)
                           \o MergeTinyLoop(SubSeq(segments, 3, Len(segments)), scene_changes,
                                            transcript_segments, cfg)
                      ELSE <<current_seg>>
                           \o MergeTinyLoop(Tail(segments), scene_changes,
                                            transcript_segments, cfg)
             ELSE <<current_seg>>

MergeTinySegments(segments, scene_changes, transcript_segments, cfg) ==
    IF Len(segments) <= 1 THEN segments
    ELSE MergeTinyLoop(segments, scene_changes, transcript_segments, cfg)

\* lines 672-688: both branches keep a segment of positive duration
FinalSegments(segments) ==
    SortByStart(SelectSeq(segments, LAMBDA seg : seg.end - seg.start > 0))

\* the loop never stops before max_iterations
NeverConverged(count, initial_count) == FALSE

\* line 661: len(segments) == initial_count
Converged(count, initial_count) == count = initial_count

\* SegmentationConfig as validate() accepts it; the fields of the normalisation
\* are fixed
ProcConfigs ==
    {c \in [min_len_sec : {2 * TicksPerSec, 3 * TicksPerSec},
            max_len_sec : {3 * TicksPerSec, 4 * TicksPerSec},
            max_iterations : 1..MaxIterations,
            merge_threshold_factor : {120, 200},
            max_len_soft_factor : {150},
            non_overlap_tolerance_sec : {1},
            drop_tiny_after_trim_factor : {50},
            trim_to_transcript_boundaries : {TRUE}] :
        /\ c.min_len_sec > 0 /\ c.max_len_sec > c.min_len_sec
        /\ c.max_iterations > 0 /\ c.merge_threshold_factor > 100}

\* the transcript segments: whole seconds, positive durations, each starting no
\* earlier than the one before it
TranscriptLists ==
    UNION {{[i \in 1..n |-> Seg(q[i].start * TicksPerSec, q[i].end * TicksPerSec)] :
                q \in {BuildSegs(gaps, durs, 1, 0) :
                          gaps \in {g \in [1..n -> 0..MaxProcGap] : n = 0 \/ g[1] = 0},
                          durs \in [1..n -> 1..MaxProcDur]}} :
           n \in 0..MaxTranscriptSegs}

\* the scene changes a pass over the video finds, on whole seconds
SceneChanges ==
    {v \in SUBSET {t * TicksPerSec :
                      t \in 1..((MaxTranscriptSegs - 1) * MaxProcGap + MaxProcDur - 1)} :
        Cardinality(v) <= MaxSceneChanges}

\* process_segments has not been called yet
ProcInit ==
    /\ IdleExcept("proc")
    /\ proc = [phase |-> "call", transcript_segments |-> <<>>, cfg |-> <<>>,
               vit_loaded |-> FALSE, segments |-> <<>>, iteration |-> 0,
               initial_count |-> 0, before |-> <<>>, out |-> <<>>]

\* lines 584-604: the call with its transcript and configuration; an empty
\* transcript returns []; load_vit succeeds or raises; the segments are sorted by
\* start
ProcStart ==
    /\ proc.phase = "call"
    /\ \E transcript_segments \in TranscriptLists, cfg \in ProcConfigs, vit_loaded \in BOOLEAN :
        proc' = IF transcript_segments = <<>>
                THEN [proc EXCEPT !.phase = "returned", !.cfg = cfg]
                ELSE [proc EXCEPT !.phase = "loop", !.cfg = cfg,
                                  !.transcript_segments = transcript_segments,
                                  !.vit_loaded = vit_loaded,
                                  !.segments = SortByStart(transcript_segments)]
    /\ Frame("proc")

\* lines 606-663: one pass of the loop; before is the list the pass started from
Pass ==
    /\ proc.phase = "loop"
    /\ proc.iteration < proc.cfg.max_iterations
    /\ \E scene_changes \in SceneChanges :
        LET initial_count == Len(proc.segments)
            merged_segments == MergeShort(proc.segments, proc.cfg)
            split_segments ==
                IF proc.vit_loaded
                THEN SplitLong(merged_segments, scene_changes, proc.transcript_segments,
                               proc.cfg)
                ELSE merged_segments
            segments == SortByStart(split_segments)
        IN  proc' = [proc EXCEPT
                       !.before = proc.segments,
                       !.segments = segments,
                       !.initial_count = initial_count,
                       !.iteration = @ + 1,
                       !.phase = IF Converged(Len(segments), initial_count)
                                    \/ proc.iteration + 1 >= proc.cfg.max_iterations
                                 THEN "final" ELSE "loop"]
    /\ Frame("proc")

\* lines 665-700: the final merge of tiny segments, the clean-up and the
\* normalisation
Finish ==
    /\ proc.phase = "final"
    /\ \E scene_changes \in SceneChanges :
        LET segments == IF proc.vit_loaded
                        THEN MergeTinySegments(proc.segments, scene_changes,
                                               proc.transcript_segments, proc.cfg)
                        ELSE proc.segments
        IN  proc' = [proc EXCEPT
                       !.phase = "returned",
                       !.out = NormalizeNonOverlap(FinalSegments(segments),
                                                   BoundsOf(proc.transcript_segments),
                                                   proc.cfg)]
    /\ Frame("proc")

ProcNext == ProcStart \/ Pass \/ Finish

SpecProc == ProcInit /\ [][ProcNext]_vars

(***************************************************************************)
(* segment_analyzer.py: sample_frames, over frame_extraction.py:           *)
(* extract_frames.  Times are tenths of a second.  A frame file is named   *)
(* after the time it was taken at (frame_<ms>.jpg), so a path is modelled  *)
(* by that time.                                                           *)
(***************************************************************************)

\* Bounds of the inputs drawn for sample_frames.
MaxSmpTime == 4
MaxSmpCap == 3

\* extract_frames, timestamps branch (lines 42-88): each timestamp is moved into
\* the video (original_ts = max(0, min(ts, duration - 0.1))); a frame that can be
\* read there is written and its path appended, a frame that cannot be read (after
\* the retries up to 0.2 s earlier) is left out
RECURSIVE ExtractAt(_, _, _)
ExtractAt(timestamps, duration, readable) ==
    IF timestamps = <<>> THEN <<>>
    ELSE LET ts == Head(timestamps)
             original_ts == Max2(0, Min2(ts, duration - 1))
             rest == ExtractAt(Tail(timestamps), duration, readable)
         IN  IF original_ts \in readable THEN <<original_ts>> \o rest ELSE rest

\* extract_frames(video_path, timestamps=...): an empty list selects no extraction
\* method (line 130), a video that cannot be opened has no frame rate (line 36)
ExtractFrames(timestamps, duration, readable, video_opens) ==
    IF ~video_opens \/ timestamps = <<>>
    THEN [raised |-> TRUE, frame_paths |-> <<>>]
    ELSE [raised |-> FALSE, frame_paths |-> ExtractAt(timestamps, duration, readable)]

\* lines 240-246: the i-th path with the i-th timestamp asked for
ZipByPosition(segment_timestamps, frame_paths) ==
    [i \in 1..Min2(Len(frame_paths), Len(segment_timestamps)) |->
        [ts |-> segment_timestamps[i], path |-> frame_paths[i]]]

\* sample_frames(video_path, start, end, interval_sec, cap, timestamps)
SampleFramesOf(start, end, interval_sec, cap, timestamps, duration, readable, video_opens) ==
    LET segment_timestamps ==
            IF timestamps.given
            THEN Prefix(WithinSegment(timestamps.list, start, end), cap)
            ELSE PeriodicTimestamps(start, end, interval_sec, cap)
        extracted == ExtractFrames(segment_timestamps, duration, readable, video_opens)
    IN  IF extracted.raised THEN <<>>
        ELSE ZipByPosition(segment_timestamps, extracted.frame_paths)

\* the timestamps argument: an ascending list as analyze_segments passes it, or
\* None (not given) for the periodic ones
TimestampArguments ==
    {[given |-> TRUE, list |-> SortedSeq(S)] : S \in SUBSET (0..MaxSmpTime)}
    \cup {[given |-> FALSE, list |-> <<>>]}

SmpInit ==
    /\ IdleExcept("smp")
    /\ \E start \in 0..1, end \in 2..MaxSmpTime, cap \in 1..MaxSmpCap,
          timestamps \in TimestampArguments, interval_sec \in 1..2 :
        smp = [phase |-> "call", start |-> start, end |-> end, cap |-> cap,
               interval_sec |-> interval_sec, timestamps |-> timestamps,
               duration |-> 0, readable |-> {}, out |-> <<>>]

\* one call; the video lasts `duration`, its frames at `readable` can be read
Sample ==
    /\ smp.phase = "call"
    /\ \E duration \in smp.end..(smp.end + 1), readable \in SUBSET (0..MaxSmpTime),
          video_opens \in BOOLEAN :
        smp' = [smp EXCEPT !.phase = "done", !.duration = duration, !.readable = readable,
                  !.out = SampleFramesOf(smp.start, smp.end, smp.interval_sec, smp.cap,
                                         smp.timestamps, duration, readable, video_opens)]
    /\ Frame("smp")

SmpNext == Sample

SpecSmp == SmpInit /\ [][SmpNext]_vars


NormDone == norm.phase = "done"

\* C1: the list returned by normalize_non_overlap is sorted by start time and each
\* segment ends no later than the next one starts plus non_overlap_tolerance_sec.
C1_SortedWithinTolerance ==
    NormDone =>
        \A i \in 1..(Len(norm.out) - 1) :
            /\ norm.out[i].start <= norm.out[i + 1].start
            /\ norm.out[i].end <= norm.out[i + 1].start + norm.cfg.non_overlap_tolerance_sec

\* C2: every segment returned by normalize_non_overlap has end > start, strictly.
C2_PositiveDuration ==
    NormDone => \A i \in 1..Len(norm.out) : norm.out[i].end > norm.out[i].start

\* C2 witness: the input held a zero- or negative-duration segment, the result is
\* not empty and holds a segment whose start was moved (it is no input segment).
C2_Witness ==
    /\ NormDone
    /\ \E i \in 1..Len(norm.segments) : norm.segments[i].end <= norm.segments[i].start
    /\ \E j \in 1..Len(norm.out) :
          /\ \A i \in 1..Len(norm.segments) : norm.segments[i].start # norm.out[j].start
          /\ \E i \in 1..Len(norm.segments) : norm.segments[i].end = norm.out[j].end

MergeDone == mrg.phase = "done"

\* C6: merge_timestamps_with_planning never returns more than max_frames_per_segment
\* timestamps (0 included), and every returned timestamp is one of its inputs and
\* lies within the segment's [start, end].
C6_AtMostMaxFramesWithinSegment ==
    MergeDone =>
        /\ Len(mrg.out) <= mrg.max_frames_per_segment
        /\ \A i \in 1..Len(mrg.out) :
             /\ mrg.out[i] \in SeqToSet(mrg.periodic) \cup SeqToSet(mrg.planned)
             /\ mrg.start <= mrg.out[i] /\ mrg.out[i] <= mrg.end

\* C7: every periodic timestamp passed to merge_timestamps_with_planning appears
\* in its result.
C7_PeriodicRetained ==
    MergeDone => SeqToSet(mrg.periodic) \subseteq SeqToSet(mrg.out)

\* C3: at every point of an analyze_segments run suspicion_llm_calls is at most
\* suspicion_llm_max_segments and planned_points_total is at most
\* planner_llm_max_points, whatever the segments, the provider's answers, the cache
\* hits, the exceptions and the ceilings.
C3_BudgetsNeverExceeded ==
    /\ run.suspicion_llm_calls <= run.env.suspicion_llm_max_segments
    /\ run.planned_points_total <= run.env.planner_llm_max_points

\* the second segment's planner proposed three points (as its cache entry shows)
\* of which only one was accepted, the first segment having used one of the two
C3_Witness ==
    /\ run.pc = "analyze" /\ run.i = 2 /\ hist.step = "plan"
    /\ run.env.planner_llm_max_points = 2
    /\ hist.points_before = 1
    /\ run.planned_points_total = 2
    /\ LET key == cache_key(VideoId, 1, TextHash(run.segments[2].text), "points")
       IN  key \in DOMAIN cache /\ Len(cache[key].points) = 3
    /\ run.suspicion_llm_calls = run.env.suspicion_llm_max_segments

\* C4: once suspicion_llm_calls has reached suspicion_llm_max_segments no later
\* segment of the run is scored through the LLM path, and once planned_points_total
\* has reached planner_llm_max_points propose_points is not invoked again in the run.
C4_ExhaustionIsOneWay ==
    [][hist'.step # "start" =>
          /\ hist.llm_exhausted =>
                /\ hist'.llm_scored = hist.llm_scored
                /\ (hist'.step = "score" /\ run.env.suspicion_mode = "llm") =>
                       run'.suspicion_result.method = "keywords"
          /\ hist.points_exhausted => hist'.propose_calls = hist.propose_calls]_vars

\* both budgets were used up by the first segment; the second, suspicious by its
\* keyword, was scored by keywords and got no planner call
C4_Witness ==
    /\ run.pc = "analyze" /\ run.i = 2 /\ hist.step = "plan"
    /\ run.env.suspicion_mode = "llm" /\ run.env.planning_mode = "llm"
    /\ run.env.suspicion_llm_max_segments = 1 /\ run.suspicion_llm_calls = 1
    /\ run.env.planner_llm_max_points = 2 /\ run.planned_points_total = 2
    /\ hist.llm_exhausted /\ hist.points_exhausted
    /\ run.suspicion_result.suspicious
    /\ run.suspicion_result.method = "keywords"
    /\ ~hist.propose_invoked

\* C5: a suspicion_score call whose key was stored by an earlier successful call
\* and is within the TTL returns what that call returned (suspicious, confidence,
\* category, reason) with _cache_hit true, calls no provider, and analyze_segments
\* leaves suspicion_llm_calls as it was.
C5_CacheRoundTrip ==
    (hist.step = "score" /\ hist.fresh_before) =>
        /\ DictGet(hist.returned, "_cache_hit", FALSE)
        /\ hist.key \in DOMAIN hist.stored
        /\ Verdict(hist.returned) = hist.stored[hist.key]
        /\ ~hist.provider_called
        /\ run.suspicion_llm_calls = hist.calls_before

\* the second run scores its first segment from an entry as old as the TTL
C5_Witness ==
    /\ hist.step = "score" /\ hist.fresh_before
    /\ run.runs = 2 /\ run.pc = "plan"
    /\ now - cache_timestamps[hist.key] = run.env.suspicion_llm_cache_ttl_sec
    /\ hist.returned.suspicious /\ hist.returned.confidence = 30

\* C8: an event is appended for a segment only if the segment's decision has
\* is_harmful true (the fallback decision of a provider error or malformed answer
\* never); the events of a run belong to different segments, in segment order;
\* an event's confidence is an integer from 0 to 100.
C8_EventsOnlyHarmfulOrderedScaled ==
    /\ (hist.step = "analyze" /\ Len(run.harmful_events) # hist.events_before) =>
          /\ Len(run.harmful_events) = hist.events_before + 1
          /\ hist.decision # None
          /\ hist.decision # DecisionFallback
          /\ hist.decision.is_harmful
    /\ Len(hist.emitted_for) = Len(run.harmful_events)
    /\ \A k \in 1..Len(run.harmful_events) :
          /\ run.harmful_events[k].confidence \in 0..100
          /\ run.harmful_events[k].segment_start =
                 format_timestamp(run.segments[hist.emitted_for[k] + 1].start)
          /\ \A j \in 1..(k - 1) : hist.emitted_for[j] < hist.emitted_for[k]

\* two events in a run: 0.295 scaled to 29, and 2.5 clamped and scaled to 100
C8_Witness ==
    /\ run.pc = "done"
    /\ Len(run.harmful_events) = 2
    /\ run.harmful_events[1].confidence = 29
    /\ run.harmful_events[2].confidence = 100

C12_FailureFallsBackUncounted ==
    (/\ sc.phase = "done" /\ sc.mode = "llm"
     /\ ~TextTooShort(sc.text, sc.cfg)
     /\ (~sc.credentials \/ sc.reply.kind \in {"error", "nondict", "raise"})) =>
        /\ sc.suspicion_result = KeywordScore(sc.text)
        /\ sc.suspicion_result.method = "keywords"
        /\ sc.suspicion_llm_calls = 0

\* C13: with GPU_MAX_CONCURRENT = N > 0 at most N units are inside a gpu_guard
\* body at any moment, under every interleaving, concurrent first use and calls
\* of initialize_gpu_guard included; with N <= 0 no unit ever waits for a permit.
C13_AtMostNInsideGuard ==
    /\ gpu.GPU_MAX_CONCURRENT > 0 =>
          Cardinality({u \in Units : gpu.units[u].pc = "body"}) <= gpu.GPU_MAX_CONCURRENT
    /\ gpu.GPU_MAX_CONCURRENT <= 0 =>
          \A u \in Units : gpu.units[u].pc \notin {"line60", "line71", "line72"}

\* C14: every GPU-bound inference, the ViT embedding of the scene-boundary
\* detection as well as the vision captioning of the evidence gathering, runs
\* only while its unit holds a permit of the guard, so that at most N of them
\* are in progress at once.
C14_InferenceHoldsPermit ==
    gpu.GPU_MAX_CONCURRENT > 0 =>
        /\ \A u \in Units :
              gpu.units[u].pc \in {"body", "embedding"} => gpu.units[u].held # 0
        /\ Cardinality({u \in Units : gpu.units[u].pc \in {"body", "embedding"}})
              <= gpu.GPU_MAX_CONCURRENT

PointsSorted(points) == \A k \in 1..(Len(points) - 1) : points[k] <= points[k + 1]

PointsApart(points, gap) == \A k \in 1..(Len(points) - 1) : points[k + 1] - points[k] >= gap

C18_CacheSafeWithoutLock ==
    \A p \in Runners :
        /\ cc.runners[p].outcome # "raised"
        /\ (/\ cc.runners[p].op = "get" /\ cc.runners[p].outcome = "returned"
            /\ cc.runners[p].expect # 0
            /\ cc.runners[p].writes_seen = cc.writes
            /\ now - cc.runners[p].expect_at <= CacheTtl) =>
               cc.runners[p].result = cc.runners[p].expect

\* C19: when analyze_video_task has returned after a fatal failure (an invalid
\* configuration, no usable segmentation input), the AnalysisRun it created has
\* status failed and so has the video; no run is left in status processing.
C19_FatalFailureMarksRunFailed ==
    task.pc = "returned" =>
        /\ task.run_status # "processing"
        /\ (task.fatal /\ task.run_status # "none") =>
               (task.run_status = "failed" /\ task.analysis_status = "failed")

\* the case of C20: two segments, A the first in sort order and of positive
\* length, B starting before A's end by more than the tolerance
OverlapA == SortSegs(norm.segments)[1]

OverlapB == SortSegs(norm.segments)[2]

OverlapCase ==
    /\ NormDone /\ Len(norm.segments) = 2
    /\ OverlapA.end > OverlapA.start
    /\ OverlapB.start < OverlapA.end - norm.cfg.non_overlap_tolerance_sec

OverlapMerges ==
    Max2(OverlapA.end, OverlapB.end) - OverlapA.start
        <= (norm.cfg.max_len_sec * norm.cfg.max_len_soft_factor) \div 100

\* A's end, or a transcript boundary at most one tolerance later
TrimmedStarts ==
    {OverlapA.end} \cup
    {b \in norm.transcript_bounds :
        OverlapA.end <= b /\ b <= OverlapA.end + norm.cfg.non_overlap_tolerance_sec}

\* C20 as stated: an overlapping B is merged into [A.start, max(A.end, B.end)]
\* if that is within the soft maximum, and is otherwise kept with its start
\* moved to A's end or to a transcript boundary at most one tolerance later.
C20_MergeOrTrim ==
    OverlapCase =>
        IF OverlapMerges
        THEN norm.out = <<Seg(OverlapA.start, Max2(OverlapA.end, OverlapB.end))>>
        ELSE \E new_start \in TrimmedStarts :
                norm.out = <<OverlapA, Seg(new_start, OverlapB.end)>>

\* C20, amended: as above, but a B that the trim leaves shorter than
\* min_len_sec * drop_tiny_after_trim_factor is dropped, and a B that the trim
\* leaves longer than the soft maximum ends one soft maximum after its start.
C20_MergeOrTrimOrDrop ==
    OverlapCase =>
        IF OverlapMerges
        THEN norm.out = <<Seg(OverlapA.start, Max2(OverlapA.end, OverlapB.end))>>
        ELSE \E new_start \in TrimmedStarts :
                LET soft_max == (norm.cfg.max_len_sec * norm.cfg.max_len_soft_factor) \div 100
                    tiny == (OverlapB.end - new_start) * 100
                               < norm.cfg.min_len_sec * norm.cfg.drop_tiny_after_trim_factor
                IN  norm.out = IF tiny THEN <<OverlapA>>
                               ELSE <<OverlapA, Seg(new_start,
                                         Min2(OverlapB.end, new_start + soft_max))>>

\* B is dropped after the trim although it ends after A: what the trim leaves
\* of it is shorter than min_len_sec * drop_tiny_after_trim_factor
C20_Witness ==
    /\ OverlapCase /\ ~OverlapMerges
    /\ OverlapB.end > OverlapA.end
    /\ norm.out = <<OverlapA>>

KwDone == kw.phase = "done"

Heroin == <<"h", "e", "r", "o", "i", "n">>

\* The categories the table lists before "drugs".
EarlierThanDrugs == {"hate", "self_harm", "nudity"}

MatchesCategoryIn(text, categories) ==
    \E ci \in 1..Len(SUSPICION_KEYWORDS) :
        /\ SUSPICION_KEYWORDS[ci].category \in categories
        /\ \E ki \in 1..Len(SUSPICION_KEYWORDS[ci].keywords) :
             Contains(Lower(text), SUSPICION_KEYWORDS[ci].keywords[ki])

AllCategories == {SUSPICION_KEYWORDS[ci].category : ci \in 1..Len(SUSPICION_KEYWORDS)}

\* C9 as claimed: every text containing "heroin" scores suspicious, confidence 0.8,
\* category "drugs", whatever else the text contains.
C9_HeroinAlwaysDrugs ==
    (KwDone /\ Contains(kw.text, Heroin)) =>
        /\ kw.result.suspicious
        /\ kw.result.confidence = 80
        /\ kw.result.category = "drugs"

\* C9 amended: every text containing "heroin" scores suspicious with confidence 0.8;
\* the category is "drugs" exactly when the text matches no keyword of a category
\* listed before drugs (hate, self_harm, nudity), and is that earlier category otherwise.
C9_HeroinDrugsUnlessEarlierCategory ==
    (KwDone /\ Contains(kw.text, Heroin)) =>
        /\ kw.result.suspicious
        /\ kw.result.confidence = 80
        /\ IF MatchesCategoryIn(kw.text, EarlierThanDrugs)
           THEN kw.result.category \in EarlierThanDrugs
           ELSE kw.result.category = "drugs"

\* C9 witness: a text with "heroin" and a keyword of a later category ("gun",
\* violence) that is scored "drugs".
C9_Witness ==
    /\ KwDone
    /\ Contains(kw.text, Heroin)
    /\ MatchesCategoryIn(kw.text, {"violence"})
    /\ kw.result.category = "drugs"

\* C10 as claimed: a text matching no keyword (the empty text included) scores
\* not suspicious with confidence 0.9, a text matching one scores suspicious with 0.8.
C10_NoMatch90Match80 ==
    KwDone =>
        IF MatchesCategoryIn(kw.text, AllCategories)
        THEN kw.result.suspicious /\ kw.result.confidence = 80
        ELSE ~kw.result.suspicious /\ kw.result.confidence = 90

\* C10 amended: the result is a function of the text alone: the empty text scores
\* not suspicious with confidence 0.0; a non-empty text matching no keyword scores
\* not suspicious with 0.9; a text matching a keyword scores suspicious with 0.8,
\* and the reported keyword occurs in the lower-cased text and belongs to the
\* reported category.
C10_EmptyZeroNoMatch90Match80 ==
    KwDone =>
        IF kw.text = <<>>
        THEN ~kw.result.suspicious /\ kw.result.confidence = 0
        ELSE IF MatchesCategoryIn(kw.text, AllCategories)
        THEN /\ kw.result.suspicious
             /\ kw.result.confidence = 80
             /\ Contains(Lower(kw.text), kw.result.keyword)
             /\ \E ci \in 1..Len(SUSPICION_KEYWORDS) :
                  /\ SUSPICION_KEYWORDS[ci].category = kw.result.category
                  /\ \E ki \in 1..Len(SUSPICION_KEYWORDS[ci].keywords) :
                       SUSPICION_KEYWORDS[ci].keywords[ki] = kw.result.keyword
        ELSE ~kw.result.suspicious /\ kw.result.confidence = 90

\* C10 witness: the empty text has been scored.
C10_Witness == KwDone /\ kw.text = <<>> /\ kw.result.confidence = 0

SplitDone == split.phase = "done"

\* the call went through the walk over the candidates (lines 394-432): the segment is
\* longer than max_len_sec and there is a candidate
SplitWalked ==
    /\ SplitDone
    /\ split.seg.end - split.seg.start > split.cfg.max_len_sec
    /\ SplitCandidates(split.seg, split.visual_boundaries, split.transcript_ends) # {}

\* C21: in split_long_segment every cut point of the result is a candidate boundary
\* with at least min_len_sec to its left (the piece ending there) and at least
\* min_len_sec between it and the end of the segment, and no returned piece is
\* shorter than min_len_sec.
C21_CutsLeaveMinOnBothSides ==
    SplitWalked =>
        \A i \in 1..Len(split.out) :
            LET piece == split.out[i]
                IsCut(t) == t # split.seg.start /\ t # split.seg.end
            IN  /\ piece.end - piece.start >= split.cfg.min_len_sec
                /\ \A t \in {piece.start, piece.end} :
                    IsCut(t) =>
                        /\ t \in SplitCandidates(split.seg, split.visual_boundaries,
                                                 split.transcript_ends)
                        /\ split.seg.end - t >= split.cfg.min_len_sec

\* no candidate was accepted as a cut: the walk of lines 397-410 leaves only the start
NoCutAccepted ==
    ValidSplits(<<split.seg.start>>,
                SortedSeq(SplitCandidates(split.seg, split.visual_boundaries,
                                          split.transcript_ends)),
                split.seg.end, split.cfg) = <<split.seg.start>>

\* the segment can be divided into n >= 2 even pieces, each within [min_len_sec, max_len_sec]
EvenSplitExists ==
    \E n \in 2..MaxSplitDur :
        /\ split.cfg.min_len_sec * n <= split.seg.end - split.seg.start
        /\ split.seg.end - split.seg.start <= split.cfg.max_len_sec * n

\* C22: for a segment longer than max_len_sec with no accepted cut (no candidates, or
\* none passing the min_len_sec tests) split_long_segment returns what force_split_smart
\* returns, and never the segment unsplit while it can be divided into even pieces
\* within [min_len_sec, max_len_sec].
C22_NoAcceptedCutForceSplits ==
    (/\ SplitDone
     /\ split.seg.end - split.seg.start > split.cfg.max_len_sec
     /\ NoCutAccepted)
    => /\ split.out = ForceSplitSmart(split.seg, split.cfg)
       /\ EvenSplitExists => split.out # <<split.seg>>

\* C29: the pieces split_long_segment returns tile the segment: the first starts at
\* seg.start, the last ends at seg.end, and each starts where the one before it ends,
\* whatever the visual and transcript candidate boundaries.
C29_PiecesTileTheSegment ==
    SplitDone =>
        /\ split.out # <<>>
        /\ split.out[1].start = split.seg.start
        /\ split.out[Len(split.out)].end = split.seg.end
        /\ \A i \in 1..(Len(split.out) - 1) : split.out[i + 1].start = split.out[i].end

\* the list is in the order segments.sort(key=start) leaves it in
SortedByStart(segments) ==
    \A i \in 1..(Len(segments) - 1) : segments[i].start <= segments[i + 1].start

\* the steps process_segments has left at most: the passes of the loop, the final
\* step, and the start of the call
StepsLeft ==
    CASE proc.phase = "call" -> MaxIterations + 2
      [] proc.phase = "loop" -> (proc.cfg.max_iterations - proc.iteration) + 1
      [] proc.phase = "final" -> 1
      [] OTHER -> 0

\* C23: process_segments always terminates: every step leaves fewer steps to the
\* return and a pass of the loop can always be taken; the loop makes at most
\* max_iterations passes, the list is sorted by start after each pass, and the loop
\* goes on to another pass only if the pass changed the number of segments: a pass
\* that ends with as many segments as it started with is the last one, whether or
\* not it moved boundaries.
C23_LoopStopsAndReturns ==
    /\ [](StepsLeft >= 0 /\ (StepsLeft = 0 <=> proc.phase = "returned"))
    /\ [][StepsLeft' < StepsLeft]_vars
    /\ [](proc.phase \in {"loop", "final", "returned"} =>
            /\ proc.iteration <= proc.cfg.max_iterations
            /\ SortedByStart(proc.segments))
    /\ [](proc.phase = "loop" =>
            /\ proc.iteration < proc.cfg.max_iterations
            /\ proc.iteration > 0 => Len(proc.segments) # proc.initial_count)
    /\ [][(proc.phase = "loop" /\ proc'.phase # "loop") =>
            /\ proc'.phase = "final"
            /\ proc'.iteration = proc.iteration + 1
            /\ \/ Len(proc'.segments) = Len(proc.segments)
               \/ proc'.iteration = proc.cfg.max_iterations]_vars

\* a pass that moved a boundary and kept the number of segments ended the loop
\* before max_iterations, and the function returned
C23_Witness ==
    /\ proc.phase = "returned"
    /\ proc.iteration < proc.cfg.max_iterations
    /\ Len(proc.segments) = proc.initial_count
    /\ proc.segments # proc.before

\* the units that acquired a permit of semaphore object k and have not released it
Holders(k) == {u \in Units : gpu.units[u].held = k}

\* C24: every exit from a gpu_guard body gives back exactly the permit its entry
\* took: for each semaphore object the permits left plus the permits held are the N
\* it was created with (none leaked, none released twice), so whenever no unit holds
\* a permit the semaphore in use has all its N permits.
C24_ExitReleasesItsOwnPermit ==
    gpu.GPU_MAX_CONCURRENT > 0 =>
        /\ \A k \in 1..Len(gpu.semaphores) :
              gpu.semaphores[k] + Cardinality(Holders(k)) = gpu.GPU_MAX_CONCURRENT
        /\ (gpu._gpu_semaphore # 0 /\ \A u \in Units : gpu.units[u].held = 0) =>
              gpu.semaphores[gpu._gpu_semaphore] = gpu.GPU_MAX_CONCURRENT

\* the step just taken generated the sampling timestamps of a segment (lines 723-744)
Sampled == hist.step = "analyze" /\ hist.sampled # None

\* C25: with the default SegmentationConfig the interval used for a suspicious
\* segment is seg_suspicious_sample_sec and is no larger than seg_safe_sample_sec,
\* the one used for a safe segment, so a suspicious segment gets at least as many
\* periodic timestamps as the same segment would get with the safe interval, both
\* capped at max_frames_per_segment.
C25_SuspiciousSampledNoCoarser ==
    (Sampled /\ hist.sampled.is_suspicious) =>
        /\ hist.sampled.interval = run.env.seg_suspicious_sample_sec
        /\ hist.sampled.interval <= run.env.seg_safe_sample_sec
        /\ Len(hist.sampled.periodic_timestamps) <= run.env.max_frames_per_segment
        /\ Len(hist.sampled.periodic_timestamps) >=
              Len(PeriodicTimestamps(hist.sampled.segment.start, hist.sampled.segment.end,
                                     run.env.seg_safe_sample_sec,
                                     run.env.max_frames_per_segment))

\* C26: analyze_segments increments suspicion_llm_calls for a segment only if the LLM
\* provider was invoked for that segment's suspicion score; a text shorter than
\* suspicion_llm_min_text_chars, a cache hit and a fallback leave the counter as it was.
C26_CountsOnlyProviderCalls ==
    (hist.step = "score" /\ run.suspicion_llm_calls # hist.calls_before) =>
        /\ hist.provider_called
        /\ ~DictGet(hist.returned, "_cache_hit", FALSE)
        /\ ~DictGet(hist.returned, "_fallback", FALSE)

\* C27: the planned timestamps of a segment that analyze_segments charged to
\* planned_points_total are usable: the points budget it passes to
\* merge_timestamps_with_planning for that segment allows as many extra timestamps as
\* were charged, so the merged list is the one the frame cap, planner_max_extra_frames
\* and the minimum gap alone would leave.
C27_ChargedPointsAreUsable ==
    (Sampled /\ hist.sampled.planned_timestamps # <<>>) =>
        /\ hist.sampled.remaining_points_budget >= Len(hist.sampled.planned_timestamps)
        /\ hist.sampled.final_timestamps =
              MergeTimestampsWithPlanning(hist.sampled.periodic_timestamps,
                                          hist.sampled.planned_timestamps, run.env,
                                          run.env.max_frames_per_segment,
                                          Len(hist.sampled.planned_timestamps))

\* C28: every segment normalize_non_overlap returns, the first one included, lasts at
\* most max_len_sec * max_len_soft_factor, whatever the input list.
C28_NoSegmentBeyondSoftMax ==
    NormDone =>
        \A i \in 1..Len(norm.out) :
            (norm.out[i].end - norm.out[i].start) * 100
                <= norm.cfg.max_len_sec * norm.cfg.max_len_soft_factor

SmpDone == smp.phase = "done"

\* C30: every frame sample sample_frames returns carries the timestamp its frame was
\* extracted at, also when extract_frames could not read the frame of some of the
\* timestamps asked for and returned fewer paths.
C30_SampleCarriesItsFrameTime ==
    SmpDone => \A i \in 1..Len(smp.out) : smp.out[i].ts = smp.out[i].path

====
